---- MODULE Spec2Model ----
(***************************************************************************)
(* A model of the cross-process coordination layer of LYRN:                *)
(*   file_lock.py                  SimpleFileLock                          *)
(*   automation_controller.py      the job queue (job_queue.json)          *)
(*   automation/scheduler_manager.py   the schedule store (schedules.json) *)
(*   automation/scheduler_watcher.py   the single-instance watcher         *)
(*                                                                         *)
(* Files are modelled with POSIX semantics: os.remove unlinks a path even  *)
(* while another process has the file open, and a write through a handle   *)
(* whose path was unlinked goes to the orphaned inode, not to the path.    *)
(* Time is counted in poll intervals (one time.sleep(0.1) of __enter__).   *)
(***************************************************************************)
EXTENDS Integers, Sequences, FiniteSets, TLC

(* ------------------------------ bounds -------------------------------- *)

\* Number of OS processes that use the lock concurrently.
NProcs == 2

\* SimpleFileLock's default timeout (5 s, file_lock.py:14), scaled to poll
\* intervals so that a waiter can sleep a few times before it gives up.
DefaultTimeout == 2

Procs == 1..NProcs

\* timeout=0 is what scheduler_watcher.py:29 passes; the other callers use
\* the default.
Timeouts == {0, DefaultTimeout}

(* --------------------------- lock file text --------------------------- *)

\* str(os.getpid()) for the PIDs of the model (file_lock.py:31).
PidDigits == <<"1", "2", "3", "4", "5", "6">>

str(pid) == PidDigits[pid]

\* Texts a lock file may hold: empty, blank, unparseable, or a decimal PID.
BlankText == " "

GarbageText == "x"

\* str.strip() (file_lock.py:41, 68): blank text strips to the empty string.
strip(text) == IF text = BlankText THEN "" ELSE text

\* Whether int(text) succeeds (file_lock.py:47, 68); it raises ValueError on
\* empty or non-decimal text.
IsInt(text) == \E n \in DOMAIN PidDigits : PidDigits[n] = text

\* int(text), for a text on which it succeeds.
int(text) == CHOOSE n \in DOMAIN PidDigits : PidDigits[n] = text

(* ------------------------------- state -------------------------------- *)

VARIABLES
    lockFile,   \* the lock file in the temp directory: exists, text, creator
    lockInit,   \* the text the lock file held when the run began (history)
    alive,      \* alive[p]: the OS process p is running
    pc,         \* pc[p]: where process p is in __enter__ / __exit__
    timeout,    \* timeout[p]: self.timeout of the lock object p is using
    elapsed,    \* elapsed[p]: time.time() - start_time, saturating
    pid_str,    \* pid_str[p]: the stripped text p last read in __enter__
    op,         \* op[p]: what p is doing inside its with-body
    queue_data, \* queue_data[p]: the list p read under the lock and is about to
                \* write (queue_data, schedules, schedules_to_keep)
    new_job     \* new_job[p]: the dict p has in hand (new_job_dict, next_job_dict,
                \* schedule_dict, the schedule_id to delete, the due schedules)

VARIABLES
    queueFile,  \* automation/job_queue.json: a list of job dicts
    begun,      \* the number of add_job calls that built a job dict (history)
    added,      \* the job dicts written by add_job so far, in order (history)
    returned,   \* the Jobs returned by get_next_job so far, in order (history)
    pending     \* the last result of has_pending_jobs

VARIABLES
    schedulesFile,  \* automation/schedules.json: a list of schedule dicts
    issued,         \* the number of uuid4 ids drawn so far (history)
    clock,          \* datetime.now(), in ticks
    due_schedules,  \* the last return value of get_and_remove_due_schedules
    lastCall        \* the SchedulerManager operation that ran last (history)

VARIABLES
    got,        \* the ids get_and_remove_due_schedules calls of processes sharing
                \* schedules.json have returned, in order (history)
    stored,     \* the ids of the add_schedule calls that wrote the file (history)
    deleted     \* the ids of the delete_schedule calls that wrote the file (history)

VARIABLES
    active_cycle,       \* global_flags/active_cycle.json
    llm_status,         \* global_flags/llm_status.txt
    cycle_trigger,      \* global_flags/cycle_trigger.txt, or NoTrigger
    generating,         \* the consumer is between its busy and its idle write
    wpc,                \* where the watcher is in a pass of its loop
    active_cycle_data,  \* the watcher's local: the record it read in this pass
    tpc,                \* where toggle_cycle is: "idle" or "write"
    current_state,      \* toggle_cycle's local: the record it read
    selected_cycle,     \* toggle_cycle's local: the selector's value
    injected,           \* the prompts written to cycle_trigger.txt since the
                        \* last start, in order (history)
    idleReports,        \* the consumer's idle writes since the last start (history)
    observed,           \* the passes since the last start in which the watcher
                        \* found the record running and the LLM idle (history)
    llm_at_start,       \* llm_status when the cycle was last started (history)
    stopped_by_toggle,  \* toggle_cycle's last write was a stop (history)
    idle_since          \* the consumer wrote idle since the last write of
                        \* cycle_trigger.txt (history)

cycleVars == <<active_cycle, llm_status, cycle_trigger, generating, wpc,
               active_cycle_data, tpc, current_state, selected_cycle,
               injected, idleReports, observed, llm_at_start,
               stopped_by_toggle, idle_since>>

VARIABLES
    cycles,     \* cycles[p]: self.cycles of the CycleManager of process p
    cyclesFile, \* automation/cycles.json
    cmCall      \* the CycleManager call that ended last (history)

VARIABLES
    manifest,     \* manifest[p]: self.manifest of the DeltaManager of process p
    manifestFile, \* deltas/_manifest.json
    deltaFiles,   \* the relative paths of the delta files on disk
    dpc,          \* dpc[p]: whether p is before the _save_manifest of a
                  \* set_section_value / append_to_section, and for which key
    deltasMade,   \* the number of create_delta calls so far (history)
    appended,     \* the paths of the create_delta calls that returned one (history)
    keysSet,      \* the simple-delta keys of completed set calls (history)
    render_prev,  \* what the get_delta_content call before the last returned
    render_last,  \* what the last get_delta_content call returned
    callsInRow,   \* get_delta_content calls since the last change, up to 2
    fileBefore    \* _manifest.json before the first of those calls (history)

VARIABLES
    tmpFile,    \* automation/job_queue.json.tmp: exists, holds a whole document, which
    queueTorn,  \* job_queue.json holds text that is no complete JSON document
                \* (a reader of it gets []: queueFile is << >> then)
    wfd,        \* wfd[p]: the file that p's open file object writes to: "tmp",
                \* "target" once that file has been renamed, "gone", "none"
    diedIn      \* diedIn[p]: where in _write_queue_unsafe p was killed (history)

crashVars == <<tmpFile, queueTorn, wfd, diedIn>>

VARIABLES
    dstep,      \* dstep[p]: where p's DeltaManager is in _load_manifest /
                \* _save_manifest ("unbuilt" before __init__, "dead" once killed)
    mtmp,       \* mtmp[p]: the temp file of p's _save_manifest
    dlock,      \* the process inside `with self.manifest_lock`, or 0
    dkilled     \* a process has been killed inside an operation (history)

dcVars == <<dstep, mtmp, dlock, dkilled>>

VARIABLES
    vstatus,    \* global_flags/verbatim_state.txt, stripped ("<absent>": no file)
    sessions,   \* Chat_History: the session directories (start and end
                \* timestamp of the name, the blocks with their counts of .txt
                \* files and of appended outputs; sid tells directories apart)
    vm,         \* the attributes of the running VerbatimMemoryWatcher
    vrunning,   \* the watcher process is in the loop of run()
    vclock,     \* datetime.now(), in seconds
    nextSid,    \* the sid of the next directory made (history)
    vinputs,    \* inputs signalled so far (history)
    vpairs,     \* outputs appended since the current block became current (history)
    vfound,     \* .txt files found in the current block when it was resumed (history)
    vkills,     \* kills of the watcher so far (history)
    vlast       \* what happened last: "start", "poll", "signal", "kill", "tick"

vbVars == <<vstatus, sessions, vm, vrunning, vclock, nextSid, vinputs, vpairs,
            vfound, vkills, vlast>>

VARIABLES
    ep          \* one episodic entry: the arguments of create_chat_entry, the
                \* lines of the file written, the dict parse_entry_file returns

epVars == <<ep>>

VARIABLES
    calling,    \* calling[p]: the public operation p is in ("none": no call)
    outcome     \* outcome[p]: how p's last call ended: "returned" (its value
                \* after the with-body), "failure_value", "TimeoutError"

toVars == <<calling, outcome>>

VARIABLES
    seenActive, \* active_cycle.json as the watcher's current pass found it (history)
    seenStatus, \* llm_status.txt as that pass found it, or Unread (history)
    flagReads   \* the watcher's reads of a flag file so far, modulo 2 (history)

flagVars == <<seenActive, seenStatus, flagReads>>

VARIABLES
    updates     \* the last two update_simple_delta calls: trait, value (history)

usdVars == <<updates>>

VARIABLES
    foundStale  \* foundStale[p]: scheduler watcher p was started in front of a
                \* lock file left by a dead process (history)

swVars == <<foundStale>>

VARIABLES
    ppc,          \* where _watch_cycle_trigger_file is: "poll", "unlink", "put"
    trigger_content,      \* its local: the text it read from cycle_trigger.txt
    stream_queue, \* the inject_trigger messages it has put, in order (history)
    handled       \* how many of them process_queue has handled

pollVars == <<ppc, trigger_content, stream_queue, handled>>

VARIABLES
    vpc,          \* where the loop of run() is: "read" or "write"
    status        \* its local: the word read_status returned and it handled

stepVars == <<vpc, status>>

VARIABLES
    qcall         \* the last call of the consumer on the job queue: the
                  \* operation, its name argument, what it returned (history)

qcVars == <<qcall>>

\* The variables of the last sections, and those apart from one section's.
tailVars == <<usdVars, swVars, pollVars, stepVars, qcVars>>

notUsdVars == <<swVars, pollVars, stepVars, qcVars>>

notSwVars == <<usdVars, pollVars, stepVars, qcVars>>

notPollVars == <<usdVars, swVars, stepVars, qcVars>>

notStepVars == <<usdVars, swVars, pollVars, qcVars>>

notQcVars == <<usdVars, swVars, pollVars, stepVars>>

\* The variables of the later sections, apart from one section's own.
notCrashVars == <<dcVars, vbVars, epVars, toVars, flagVars, tailVars>>

notDcVars == <<crashVars, vbVars, epVars, toVars, flagVars, tailVars>>

moreVars == <<crashVars, dcVars, vbVars, epVars, toVars, flagVars, tailVars>>

\* Everything of the later sections but the calls and their outcomes.
notToVars == <<crashVars, dcVars, vbVars, epVars, flagVars, tailVars>>

\* Everything but the flag files, the watcher's locals and what it found.
notFlagVars == <<crashVars, dcVars, vbVars, epVars, toVars, tailVars>>

\* The later sections but the last.
notTailVars == <<crashVars, dcVars, vbVars, epVars, toVars, flagVars>>

lockVars == <<lockFile, lockInit, alive, pc, timeout, elapsed, pid_str>>

localVars == <<op, queue_data, new_job>>

queueVars == <<queueFile, begun, added, returned, pending>>

schedVars == <<schedulesFile, issued, clock, due_schedules, lastCall>>

shareVars == <<got, stored, deleted>>

cmVars == <<cycles, cyclesFile, cmCall>>

deltaVars == <<manifest, manifestFile, deltaFiles, dpc, deltasMade, appended,
               keysSet, render_prev, render_last, callsInRow, fileBefore>>

\* The variables of the sections up to the DeltaManager.
baseVars == <<lockVars, localVars, queueVars, schedVars, shareVars,
              cycleVars, cmVars, deltaVars>>

\* Everything but the verbatim watcher and its files.
notVbVars == <<baseVars, crashVars, dcVars, epVars, toVars, flagVars, tailVars>>

\* Everything but the verbatim watcher, its files and its place in run().
notVbStepVars == <<baseVars, crashVars, dcVars, epVars, toVars, flagVars,
                   notStepVars>>

\* Everything but the episodic entry.
notEpVars == <<baseVars, crashVars, dcVars, vbVars, toVars, flagVars, tailVars>>

\* Everything but the DeltaManagers and the deltas directory.
notDeltaVars == <<lockVars, localVars, queueVars, schedVars, shareVars,
                  cycleVars, cmVars, moreVars>>

\* Everything but the cycle flags and the locals of their readers.
notCycleVars == <<lockVars, localVars, queueVars, schedVars, shareVars, cmVars,
                  deltaVars, moreVars>>

\* Everything but the CycleManagers and cycles.json.
notCMVars == <<lockVars, localVars, queueVars, schedVars, shareVars, cycleVars,
               deltaVars, moreVars>>

extVars == <<shareVars, cycleVars, cmVars, deltaVars, moreVars>>

dataVars == <<queueFile, begun, added, returned, pending,
              schedulesFile, issued, clock, due_schedules, lastCall, extVars>>

vars == <<lockFile, lockInit, alive, pc, timeout, elapsed, pid_str,
          op, queue_data, new_job,
          queueFile, begun, added, returned, pending,
          schedulesFile, issued, clock, due_schedules, lastCall, extVars>>

\* new_job[p] while p has no job dict in hand.
NoJob == [name |-> "", priority |-> 0, when |-> "", uid |-> 0]

\* pid_str before __enter__ has read anything.
Unread == "<unread>"

NoFile == [exists |-> FALSE, text |-> "", creator |-> 0]

\* psutil.pid_exists(pid): the PID belongs to a running process.
_is_pid_running(pid) == pid \in Procs /\ alive[pid]

\* elapsed time saturates one step above the timeout: all that the code
\* asks of it is whether it exceeds self.timeout.
Saturate(p, e) == IF e > timeout[p] + 1 THEN timeout[p] + 1 ELSE e

\* The locals of __enter__ (start_time, pid_str) and the lock object go out
\* of scope.
Forget(p) ==
    /\ timeout' = [timeout EXCEPT ![p] = 0]
    /\ elapsed' = [elapsed EXCEPT ![p] = 0]
    /\ pid_str' = [pid_str EXCEPT ![p] = Unread]
    /\ op' = [op EXCEPT ![p] = "none"]
    /\ queue_data' = [queue_data EXCEPT ![p] = << >>]
    /\ new_job' = [new_job EXCEPT ![p] = NoJob]

\* The lock file records the PID of a process that is not running.
StaleLockFile ==
    /\ lockFile.exists
    /\ IsInt(strip(lockFile.text))
    /\ ~_is_pid_running(int(strip(lockFile.text)))

(* ------------------------ SimpleFileLock.__enter__ -------------------- *)

\* The caller evaluates `with SimpleFileLock(path, timeout=t)`:
\* start_time = time.time() and the loop is entered.
Enter(p, t) ==
    /\ alive[p] /\ pc[p] = "idle"
    /\ pc' = [pc EXCEPT ![p] = "try_create"]
    /\ timeout' = [timeout EXCEPT ![p] = t]
    /\ elapsed' = [elapsed EXCEPT ![p] = 0]
    /\ pid_str' = [pid_str EXCEPT ![p] = Unread]
    /\ UNCHANGED <<lockFile, lockInit, alive>>

\* open(path, 'x'): creates the file, empty, or raises FileExistsError.
TryCreate(p) ==
    /\ alive[p] /\ pc[p] = "try_create"
    /\ IF lockFile.exists
         THEN /\ pc' = [pc EXCEPT ![p] = "check_timeout"]
              /\ UNCHANGED lockFile
         ELSE /\ lockFile' = [exists |-> TRUE, text |-> "", creator |-> p]
              /\ pc' = [pc EXCEPT ![p] = "write_pid"]
    /\ UNCHANGED <<lockInit, alive, timeout, elapsed, pid_str>>
    /\ UNCHANGED <<localVars, dataVars>>

\* write(str(os.getpid())); flush(); return self. The write goes through the
\* handle: it reaches the path only if the path still names the file p made.
WritePid(p) ==
    /\ alive[p] /\ pc[p] = "write_pid"
    /\ lockFile' = IF lockFile.exists /\ lockFile.creator = p
                     THEN [lockFile EXCEPT !.text = str(p)]
                     ELSE lockFile
    /\ pc' = [pc EXCEPT ![p] = "acquired"]
    /\ UNCHANGED <<lockInit, alive, timeout, elapsed, pid_str>>
    /\ UNCHANGED <<localVars, dataVars>>

\* A timeout test that already fires when the elapsed time equals the
\* timeout (>= for >).
TimeoutExceededAtEqual(p, e) == e >= timeout[p]

\* Whether `time.time() - start_time > self.timeout` with e elapsed.
TimeoutExceeded(p, e) == e > timeout[p]

\* The timeout test, made before the file is looked at. Any amount of time
\* may have passed since the last reading of the clock.
CheckTimeout(p) ==
    /\ alive[p] /\ pc[p] = "check_timeout"
    /\ \E e \in elapsed[p]..(timeout[p] + 1) :
         /\ elapsed' = [elapsed EXCEPT ![p] = e]
         /\ pc' = [pc EXCEPT ![p] =
                     IF TimeoutExceeded(p, e) THEN "timed_out" ELSE "read_pid"]
    /\ UNCHANGED <<lockFile, lockInit, alive, timeout, pid_str>>
    /\ UNCHANGED <<localVars, dataVars>>

\* An __enter__ that treats every text it cannot parse as a stale lock.
AfterReadUnparsedIsStale(text) ==
    IF ~IsInt(strip(text)) THEN "remove_empty"
    ELSE IF ~_is_pid_running(int(strip(text))) THEN "remove_stale"
    ELSE "sleep"

\* What __enter__ does after reading `text` from the lock file.
AfterRead(text) ==
    IF strip(text) = "" THEN "remove_empty"
    ELSE IF ~IsInt(strip(text)) THEN "sleep"
    ELSE IF ~_is_pid_running(int(strip(text))) THEN "remove_stale"
    ELSE "sleep"

\* open(path, 'r'); read().strip(); int(); _is_pid_running(). A missing file
\* raises FileNotFoundError, an IOError: wait and retry.
ReadPid(p) ==
    /\ alive[p] /\ pc[p] = "read_pid"
    /\ IF ~lockFile.exists
         THEN /\ pc' = [pc EXCEPT ![p] = "sleep"]
              /\ UNCHANGED pid_str
         ELSE /\ pc' = [pc EXCEPT ![p] = AfterRead(lockFile.text)]
              /\ pid_str' = [pid_str EXCEPT ![p] = strip(lockFile.text)]
    /\ UNCHANGED <<lockFile, lockInit, alive, timeout, elapsed>>
    /\ UNCHANGED <<localVars, dataVars>>

\* os.remove(path) in __enter__, then `continue`; a path that is gone by
\* now raises FileNotFoundError, which the except clause turns into a wait.
RemoveAndRetry(p) ==
    IF lockFile.exists
      THEN /\ lockFile' = NoFile
           /\ pc' = [pc EXCEPT ![p] = "try_create"]
      ELSE /\ pc' = [pc EXCEPT ![p] = "sleep"]
           /\ UNCHANGED lockFile

\* The lock file was empty: remove it (file_lock.py:44).
RemoveEmpty(p) ==
    /\ alive[p] /\ pc[p] = "remove_empty"
    /\ RemoveAndRetry(p)
    /\ UNCHANGED <<lockInit, alive, timeout, elapsed, pid_str>>
    /\ UNCHANGED <<localVars, dataVars>>

\* The recorded owner is not running: break the lock (file_lock.py:52).
RemoveStale(p) ==
    /\ alive[p] /\ pc[p] = "remove_stale"
    /\ RemoveAndRetry(p)
    /\ UNCHANGED <<lockInit, alive, timeout, elapsed, pid_str>>
    /\ UNCHANGED <<localVars, dataVars>>

\* time.sleep(0.1): one poll interval passes, then the loop starts over.
Sleep(p) ==
    /\ alive[p] /\ pc[p] = "sleep"
    /\ elapsed' = [elapsed EXCEPT ![p] = Saturate(p, elapsed[p] + 1)]
    /\ pc' = [pc EXCEPT ![p] = "try_create"]
    /\ UNCHANGED <<lockFile, lockInit, alive, timeout, pid_str>>
    /\ UNCHANGED <<localVars, dataVars>>

\* TimeoutError reaches the caller, which gives the operation up.
CatchTimeout(p) ==
    /\ alive[p] /\ pc[p] = "timed_out"
    /\ pc' = [pc EXCEPT ![p] = "idle"]
    /\ Forget(p)
    /\ UNCHANGED <<lockFile, lockInit, alive>>
    /\ UNCHANGED dataVars

(* ------------------------ SimpleFileLock.__exit__ --------------------- *)

\* Whether __exit__ goes on to os.remove after reading `text`: int() of the
\* stripped text succeeds and equals os.getpid().
ExitOwns(p, text) == IsInt(strip(text)) /\ int(strip(text)) = p

\* The with-body ends: close the handle, open(path, 'r'), read the owner.
\* FileNotFoundError and ValueError are swallowed.
ExitRead(p) ==
    /\ alive[p] /\ pc[p] = "acquired" /\ op[p] \in {"none", "done"}
    /\ IF lockFile.exists /\ ExitOwns(p, lockFile.text)
         THEN pc' = [pc EXCEPT ![p] = "exit_remove"]
         ELSE pc' = [pc EXCEPT ![p] = "idle"]
    /\ Forget(p)
    /\ UNCHANGED <<lockFile, lockInit, alive>>
    /\ UNCHANGED dataVars

\* An __exit__ that closes its handle and forgets the os.remove.
ExitWithoutRemove(p) ==
    /\ alive[p] /\ pc[p] = "exit_remove"
    /\ pc' = [pc EXCEPT ![p] = "idle"]
    /\ UNCHANGED <<lockFile, lockInit, alive, timeout, elapsed, pid_str>>
    /\ UNCHANGED <<localVars, dataVars>>

\* os.remove(path) in __exit__; FileNotFoundError is swallowed.
ExitRemove(p) ==
    /\ alive[p] /\ pc[p] = "exit_remove"
    /\ lockFile' = NoFile
    /\ pc' = [pc EXCEPT ![p] = "idle"]
    /\ UNCHANGED <<lockInit, alive, timeout, elapsed, pid_str>>
    /\ UNCHANGED <<localVars, dataVars>>

(* ------------------------------ processes ----------------------------- *)

\* The OS process dies (killed, power loss) wherever it is; whatever it
\* left on disk stays there.
Crash(p) ==
    /\ alive[p]
    /\ alive' = [alive EXCEPT ![p] = FALSE]
    /\ pc' = [pc EXCEPT ![p] = "dead"]
    /\ Forget(p)
    /\ UNCHANGED <<lockFile, lockInit>>
    /\ UNCHANGED dataVars

\* The steps of __enter__ and __exit__ that a running process takes on its
\* own once it has begun them.
EnterStep(p) ==
    \/ TryCreate(p)
    \/ WritePid(p)
    \/ CheckTimeout(p)
    \/ ReadPid(p)
    \/ RemoveEmpty(p)
    \/ RemoveStale(p)
    \/ Sleep(p)

\* A caller whose with-body is empty: `with SimpleFileLock(path, timeout=t)`.
Acquire(p, t) ==
    /\ Enter(p, t)
    /\ UNCHANGED <<localVars, dataVars>>

(* ------------------- AutomationController: the queue ------------------ *)

\* Number of add_job calls that reach the queue file in one run.
MaxJobs == 3

\* The catalog _create_default_jobs writes when there is no jobs.json.
job_definitions == {"summary_job", "keyword_job", "reflection_job"}

\* Names a caller may pass to add_job: the defined ones and one that is not.
JobNames == job_definitions \cup {"unknown_job"}

\* priority defaults to 100 (automation_controller.py:156); 1 stands for any
\* other value a caller passes.
Priorities == {1, 100}

Whens == {"now", "later"}

\* new_job_dict of add_job. uid is not in the code: it tells apart the
\* entries of different add_job calls (history).
JobDict(name, priority, when, uid) ==
    [name |-> name, priority |-> priority, when |-> when, uid |-> uid]

\* queue_data.append(new_job_dict)
append(queue, job) == Append(queue, job)

\* A pop that takes the newest entry (list.pop() for list.pop(0)).
pop_last(queue) ==
    [job |-> queue[Len(queue)], rest |-> SubSeq(queue, 1, Len(queue) - 1)]

\* queue_data.pop(0): the entry taken and the list left.
pop(queue) == [job |-> Head(queue), rest |-> Tail(queue)]

\* get_job_instructions_prompt with args = {}: None for an undefined job,
\* else the instructions inside the ###JOB_START: NAME### ... ###_END###
\* envelope (one prompt per job name).
get_job_instructions_prompt(name) ==
    IF name \notin job_definitions THEN "None"
    ELSE "###JOB_START: " \o name \o "###"

\* The Job get_next_job builds from next_job_dict.
Job(d) ==
    [name |-> d.name, priority |-> d.priority, when |-> d.when,
     prompt |-> get_job_instructions_prompt(d.name), uid |-> d.uid]

\* A catalog test that lets every name pass.
in_any_catalog(name) == TRUE

\* name in self.job_definitions
in_catalog(name) == name \in job_definitions

\* add_job with nobody else at the lock: the lock is taken and released
\* within the call, the queue is read, appended to and written back.
add_job(name, priority, when) ==
    /\ ~lockFile.exists
    /\ begun < MaxJobs
    /\ IF ~in_catalog(name)
         THEN UNCHANGED <<queueFile, begun, added>>
         ELSE LET d == JobDict(name, priority, when, begun + 1)
              IN /\ queueFile' = append(queueFile, d)
                 /\ begun' = begun + 1
                 /\ added' = Append(added, d)
    /\ UNCHANGED <<returned, pending>>
    /\ UNCHANGED <<lockVars, localVars, schedVars, extVars>>

\* get_next_job with nobody else at the lock. An empty queue returns None
\* and writes nothing; an entry whose job is undefined is consumed and
\* skipped.
get_next_job ==
    /\ ~lockFile.exists
    /\ IF queueFile = << >>
         THEN UNCHANGED <<queueFile, returned>>
         ELSE /\ queueFile' = pop(queueFile).rest
              /\ returned' =
                   IF get_job_instructions_prompt(pop(queueFile).job.name) = "None"
                     THEN returned
                     ELSE Append(returned, Job(pop(queueFile).job))
    /\ UNCHANGED <<begun, added, pending>>
    /\ UNCHANGED <<lockVars, localVars, schedVars, extVars>>

\* has_pending_jobs: a read of the queue file without the lock.
has_pending_jobs ==
    /\ pending' = (Len(queueFile) > 0)
    /\ UNCHANGED <<queueFile, begun, added, returned>>
    /\ UNCHANGED <<lockVars, localVars, schedVars, extVars>>

InitQueue ==
    /\ queueFile = << >>
    /\ begun = 0
    /\ added = << >>
    /\ returned = << >>
    /\ pending = FALSE

(* ---------------- the queue, step by step, between processes ---------- *)

\* Number of add_job calls that processes sharing the queue begin in one run.
MaxSharedJobs == 2

\* The job the processes sharing the queue add (entries differ by uid).
SharedJobNames == {"summary_job"}

\* add_job begins: the name is defined, new_job_dict is built and
\* `with SimpleFileLock(self.queue_lock_path)` is entered.
BeginAddJob(p, name) ==
    /\ name \in job_definitions
    /\ begun < MaxSharedJobs
    /\ Enter(p, DefaultTimeout)
    /\ op' = [op EXCEPT ![p] = "add"]
    /\ new_job' = [new_job EXCEPT ![p] = JobDict(name, 100, "now", begun + 1)]
    /\ begun' = begun + 1
    /\ UNCHANGED <<queue_data, queueFile, added, returned, pending, schedVars, extVars>>

\* get_next_job begins: the lock is entered.
BeginGetNextJob(p) ==
    /\ Enter(p, DefaultTimeout)
    /\ op' = [op EXCEPT ![p] = "get"]
    /\ UNCHANGED <<queue_data, new_job, dataVars>>

\* queue_data = self._read_queue_unsafe(), inside the with-body. In
\* get_next_job an empty queue returns None at once; otherwise pop(0).
ReadQueue(p) ==
    /\ alive[p] /\ pc[p] = "acquired" /\ op[p] \in {"add", "get"}
    /\ IF op[p] = "add"
         THEN /\ queue_data' = [queue_data EXCEPT ![p] = append(queueFile, new_job[p])]
              /\ op' = [op EXCEPT ![p] = "add_write"]
              /\ UNCHANGED new_job
         ELSE IF queueFile = << >>
           THEN /\ op' = [op EXCEPT ![p] = "done"]
                /\ UNCHANGED <<queue_data, new_job>>
           ELSE /\ queue_data' = [queue_data EXCEPT ![p] = pop(queueFile).rest]
                /\ new_job' = [new_job EXCEPT ![p] = pop(queueFile).job]
                /\ op' = [op EXCEPT ![p] = "get_write"]
    /\ UNCHANGED <<lockVars, dataVars>>

\* self._write_queue_unsafe(queue_data): the temp file is written and moved
\* over job_queue.json. The with-body ends here; get_next_job goes on to
\* return the Job of the entry it took.
WriteQueue(p) ==
    /\ alive[p] /\ pc[p] = "acquired" /\ op[p] \in {"add_write", "get_write"}
    /\ queueFile' = queue_data[p]
    /\ IF op[p] = "add_write"
         THEN /\ added' = Append(added, new_job[p])
              /\ UNCHANGED returned
         ELSE /\ returned' =
                   IF get_job_instructions_prompt(new_job[p].name) = "None"
                     THEN returned
                     ELSE Append(returned, Job(new_job[p]))
              /\ UNCHANGED added
    /\ op' = [op EXCEPT ![p] = "done"]
    /\ UNCHANGED <<queue_data, new_job, begun, pending>>
    /\ UNCHANGED <<lockVars, schedVars, extVars>>

(* ------------------- SchedulerManager: the schedules ------------------ *)

\* Number of add_schedule calls in one run.
MaxSchedules == 3

\* The last instant the clock reaches, in ticks.
MaxClock == 3

\* Ticks in one second: datetimes carry microseconds, the stored text only
\* whole seconds.
TicksPerSec == 2

\* Datetimes a caller schedules at, and datetime.now(), in ticks.
Datetimes == 0..(MaxClock + TicksPerSec)

\* add_schedule does not look the job name up in any catalog.
ScheduleJobNames == {"summary_job", "unknown_job"}

\* scheduled_datetime.replace(microsecond=0).isoformat(): the text of the
\* whole second, represented by the number of that second.
isoformat(datetime) == datetime \div TicksPerSec

\* datetime.fromisoformat(text): the instant at which that second begins.
fromisoformat(text) == text * TicksPerSec

\* A scheduled_datetime_iso that is not an ISO datetime (only an edit of
\* schedules.json from outside puts one there).
BadIso == -1

\* datetime.fromisoformat raises ValueError for the entry's text.
ValueError(s_dict) == s_dict.scheduled_datetime_iso = BadIso

\* The loop of get_and_remove_due_schedules builds a Schedule of every
\* entry and parses its datetime: it raises at the first entry that does
\* not parse, and only TimeoutError is caught around it.
loop_raises(all_schedules) ==
    \E i \in DOMAIN all_schedules : ValueError(all_schedules[i])

\* Schedule.scheduled_datetime
scheduled_datetime(schedule) == fromisoformat(schedule.scheduled_datetime_iso)

\* Schedule(**s_dict)
Schedule(s_dict) ==
    [id |-> s_dict.id, job_name |-> s_dict.job_name,
     scheduled_datetime_iso |-> s_dict.scheduled_datetime_iso]

\* A due test that leaves out the schedules of the current instant (< for <=).
IsDueStrictly(schedule, now) == scheduled_datetime(schedule) < now

\* schedule.scheduled_datetime <= now
IsDue(schedule, now) == scheduled_datetime(schedule) <= now

\* The loop of get_and_remove_due_schedules over all_schedules, with the
\* lists it has built so far.
RECURSIVE partition(_, _, _, _)
partition(all_schedules, now, due, keep) ==
    IF all_schedules = << >> THEN [due |-> due, keep |-> keep]
    ELSE LET s_dict == Head(all_schedules)
         IN IF IsDue(Schedule(s_dict), now)
              THEN partition(Tail(all_schedules), now,
                             Append(due, Schedule(s_dict)), keep)
              ELSE partition(Tail(all_schedules), now,
                             due, Append(keep, s_dict))

\* add_schedule with nobody else at the lock: a Schedule with a fresh id is
\* appended to the file.
add_schedule(job_name, datetime) ==
    /\ ~lockFile.exists
    /\ issued < MaxSchedules
    /\ issued' = issued + 1
    /\ schedulesFile' = Append(schedulesFile,
          [id |-> issued + 1, job_name |-> job_name,
           scheduled_datetime_iso |-> isoformat(datetime)])
    /\ lastCall' = "add_schedule"
    /\ UNCHANGED <<clock, due_schedules>>
    /\ UNCHANGED <<lockVars, localVars, queueVars, extVars>>

\* [s for s in schedules if s.get('id') != schedule_id]
schedules_to_keep(schedules, schedule_id) ==
    SelectSeq(schedules, LAMBDA s : s.id # schedule_id)

\* delete_schedule with nobody else at the lock: the file is rewritten only
\* if an entry had the id.
delete_schedule(schedule_id) ==
    /\ ~lockFile.exists
    /\ schedulesFile' =
         IF Len(schedules_to_keep(schedulesFile, schedule_id)) < Len(schedulesFile)
           THEN schedules_to_keep(schedulesFile, schedule_id)
           ELSE schedulesFile
    /\ lastCall' = "delete_schedule"
    /\ UNCHANGED <<issued, clock, due_schedules>>
    /\ UNCHANGED <<lockVars, localVars, queueVars, extVars>>

\* get_and_remove_due_schedules with nobody else at the lock: now is read,
\* an empty file returns [] at once, the file is rewritten only if some
\* schedule is due. An entry that does not parse ends the call with the
\* exception, before anything is written or returned.
get_and_remove_due_schedules ==
    /\ ~lockFile.exists
    /\ LET now == clock
           parts == partition(schedulesFile, now, << >>, << >>)
       IN IF schedulesFile = << >> \/ loop_raises(schedulesFile)
            THEN /\ due_schedules' = << >>
                 /\ UNCHANGED schedulesFile
            ELSE /\ due_schedules' = parts.due
                 /\ schedulesFile' =
                      IF parts.due # << >> THEN parts.keep ELSE schedulesFile
    /\ lastCall' = "get_and_remove_due_schedules"
    /\ UNCHANGED <<issued, clock>>
    /\ UNCHANGED <<lockVars, localVars, queueVars, extVars>>

\* schedules.json is edited by hand: an entry whose scheduled_datetime_iso
\* is not an ISO datetime is appended.
EditSchedules(job_name) ==
    /\ ~lockFile.exists
    /\ issued < MaxSchedules
    /\ issued' = issued + 1
    /\ schedulesFile' = Append(schedulesFile,
          [id |-> issued + 1, job_name |-> job_name,
           scheduled_datetime_iso |-> BadIso])
    /\ lastCall' = "edit"
    /\ UNCHANGED <<clock, due_schedules>>
    /\ UNCHANGED <<lockVars, localVars, queueVars, extVars>>

\* Time passes.
Tick ==
    /\ clock < MaxClock
    /\ clock' = clock + 1
    /\ lastCall' = "none"
    /\ UNCHANGED <<schedulesFile, issued, due_schedules>>
    /\ UNCHANGED <<lockVars, localVars, queueVars, extVars>>

(* ------------- the schedules, step by step, between processes --------- *)

\* Number of add_schedule calls that processes sharing schedules.json begin
\* in one run.
MaxSharedSchedules == 2

\* Datetimes the sharing processes schedule at: the present instant (due)
\* and one second later (not due while the clock stands).
SharedDatetimes == {0, TicksPerSec}

\* The schedule the sharing processes ask to delete: the first one added.
SharedDeleteIds == {1}

\* add_schedule begins: new_schedule gets its id, schedule_dict is built and
\* `with SimpleFileLock(self.schedules_lock_path)` is entered.
BeginAddSchedule(p, datetime) ==
    /\ issued < MaxSharedSchedules
    /\ Enter(p, DefaultTimeout)
    /\ op' = [op EXCEPT ![p] = "sched_add"]
    /\ new_job' = [new_job EXCEPT ![p] =
                     [id |-> issued + 1, job_name |-> "summary_job",
                      scheduled_datetime_iso |-> isoformat(datetime)]]
    /\ issued' = issued + 1
    /\ UNCHANGED <<queue_data, queueVars, schedulesFile, clock, due_schedules,
                   lastCall, extVars>>

\* delete_schedule begins: the lock is entered.
BeginDeleteSchedule(p, schedule_id) ==
    /\ Enter(p, DefaultTimeout)
    /\ op' = [op EXCEPT ![p] = "sched_delete"]
    /\ new_job' = [new_job EXCEPT ![p] = [id |-> schedule_id]]
    /\ UNCHANGED <<queue_data, dataVars>>

\* get_and_remove_due_schedules begins: now = datetime.now() and the lock is
\* entered.
BeginGetDue(p) ==
    /\ Enter(p, DefaultTimeout)
    /\ op' = [op EXCEPT ![p] = "sched_due"]
    /\ new_job' = [new_job EXCEPT ![p] = [now |-> clock]]
    /\ UNCHANGED <<queue_data, dataVars>>

\* self._read_schedules_unsafe() inside the with-body, and what each
\* operation computes from the list before it writes (or decides not to).
ReadSchedules(p) ==
    /\ alive[p] /\ pc[p] = "acquired"
    /\ op[p] \in {"sched_add", "sched_delete", "sched_due"}
    /\ IF op[p] = "sched_add"
         THEN /\ queue_data' = [queue_data EXCEPT ![p] =
                                  Append(schedulesFile, new_job[p])]
              /\ op' = [op EXCEPT ![p] = "sched_add_write"]
              /\ UNCHANGED new_job
         ELSE IF op[p] = "sched_delete"
           THEN LET keep == schedules_to_keep(schedulesFile, new_job[p].id)
                IN IF Len(keep) < Len(schedulesFile)
                     THEN /\ queue_data' = [queue_data EXCEPT ![p] = keep]
                          /\ op' = [op EXCEPT ![p] = "sched_delete_write"]
                          /\ UNCHANGED new_job
                     ELSE /\ op' = [op EXCEPT ![p] = "done"]
                          /\ UNCHANGED <<queue_data, new_job>>
           ELSE LET parts == partition(schedulesFile, new_job[p].now, << >>, << >>)
                IN IF schedulesFile = << >> \/ parts.due = << >>
                     THEN /\ op' = [op EXCEPT ![p] = "done"]
                          /\ UNCHANGED <<queue_data, new_job>>
                     ELSE /\ queue_data' = [queue_data EXCEPT ![p] = parts.keep]
                          /\ new_job' = [new_job EXCEPT ![p] = [due |-> parts.due]]
                          /\ op' = [op EXCEPT ![p] = "sched_due_write"]
    /\ UNCHANGED <<lockVars, dataVars>>

\* The ids of the entries of a list of schedules.
Ids(schedules) == {schedules[i].id : i \in DOMAIN schedules}

\* The ids of a list of schedules, in the order of the list.
IdSeq(schedules) == [i \in DOMAIN schedules |-> schedules[i].id]

\* self._write_schedules_unsafe(...): the temp file is written and moved
\* over schedules.json; the with-body ends and the call returns.
WriteSchedules(p) ==
    /\ alive[p] /\ pc[p] = "acquired"
    /\ op[p] \in {"sched_add_write", "sched_delete_write", "sched_due_write"}
    /\ schedulesFile' = queue_data[p]
    /\ stored' = IF op[p] = "sched_add_write"
                   THEN stored \cup {new_job[p].id} ELSE stored
    /\ deleted' = IF op[p] = "sched_delete_write"
                    THEN deleted \cup {new_job[p].id} ELSE deleted
    /\ got' = IF op[p] = "sched_due_write"
                THEN got \o IdSeq(new_job[p].due) ELSE got
    /\ op' = [op EXCEPT ![p] = "done"]
    /\ UNCHANGED <<queue_data, new_job, queueVars, issued, clock,
                   due_schedules, lastCall>>
    /\ UNCHANGED <<lockVars, cycleVars, cmVars, deltaVars, moreVars>>

(* --------------------- scheduler watcher: one poll -------------------- *)

\* `for schedule in due_schedules: automation_controller.add_job(name=
\* schedule.job_name)`: the queue after the loop. add_job returns without
\* writing when the name is not in the watcher's job_definitions (loaded
\* once, when the watcher built its AutomationController).
RECURSIVE enqueue_all(_, _, _)
enqueue_all(queue, due, uid) ==
    IF due = << >> THEN queue
    ELSE IF Head(due).job_name \notin job_definitions
      THEN enqueue_all(queue, Tail(due), uid)
      ELSE enqueue_all(append(queue, JobDict(Head(due).job_name, 100, "now", uid + 1)),
                       Tail(due), uid + 1)

\* One pass of the watcher's `while True` loop, with nobody else at the
\* locks: get_and_remove_due_schedules, then add_job for each due schedule.
poll ==
    /\ ~lockFile.exists
    /\ LET now == clock
           parts == partition(schedulesFile, now, << >>, << >>)
           due == IF schedulesFile = << >> \/ loop_raises(schedulesFile)
                    THEN << >> ELSE parts.due
           queue == enqueue_all(queueFile, due, begun)
       IN /\ due_schedules' = due
          /\ schedulesFile' = IF due # << >> THEN parts.keep ELSE schedulesFile
          /\ queueFile' = queue
          /\ added' = added \o SubSeq(queue, Len(queueFile) + 1, Len(queue))
          /\ begun' = begun + (Len(queue) - Len(queueFile))
    /\ lastCall' = "poll"
    /\ UNCHANGED <<issued, clock, returned, pending>>
    /\ UNCHANGED <<lockVars, localVars, extVars>>

(* ------------------- cycle watcher and the cycle flags ---------------- *)

\* Number of idle reports of the consumer that are counted after a cycle is
\* started (the count saturates there).
MaxIdleReports == 5

\* The cycles the watcher's CycleManager loaded when the watcher was built
\* (cycle_watcher.py:19): one with three triggers and one with none. A cycle
\* the consumer created later is not among them.
watcher_cycles ==
    [three |-> [name |-> "three",
                triggers |-> << [name |-> "t0", prompt |-> "p0"],
                                [name |-> "t1", prompt |-> "p1"],
                                [name |-> "t2", prompt |-> "p2"] >>],
     empty |-> [name |-> "empty", triggers |-> << >>]]

\* The names the consumer's selector offers: the two above and one the
\* watcher does not know.
CycleNames == {"three", "empty", "unknown"}

\* A key a JSON object does not have (dict.get gives None or its default).
None == -1

\* active_cycle.json before anything wrote it; also {} in toggle_cycle.
NoRecord == [name |-> "", status |-> "absent", current_step |-> None]

\* cycle_trigger.txt does not exist.
NoTrigger == "<absent>"

\* The process whose CycleManager is the watcher's: its self.cycles is what
\* __init__ loaded from cycles.json, and the watcher calls nothing of it
\* but get_cycle.
WatcherManager == NProcs

\* self.cycle_manager.get_cycle(cycle_name), i.e. self.cycles.get(name):
\* None (found is FALSE) for an unknown name.
get_cycle(name) ==
    IF name \in DOMAIN watcher_cycles
      THEN [found |-> TRUE, triggers |-> watcher_cycles[name].triggers]
    ELSE IF name \in DOMAIN cycles[WatcherManager] /\ cycles[WatcherManager][name].exists
      THEN [found |-> TRUE, triggers |-> cycles[WatcherManager][name].triggers]
      ELSE [found |-> FALSE, triggers |-> << >>]

\* active_cycle_data.get("current_step", 0)
current_step_of(data) == IF data.current_step = None THEN 0 ELSE data.current_step

\* What a pass does once it has found the record running and the LLM idle:
\* "stop" for an unknown or empty cycle and at the end of the triggers,
\* else "inject".
Resolve(data) ==
    LET cycle == get_cycle(data.name)
    IN IF ~cycle.found THEN "stop"
       ELSE IF cycle.triggers = << >> THEN "stop"
       ELSE IF current_step_of(data) >= Len(cycle.triggers) THEN "stop"
       ELSE "inject"

\* triggers[current_step] of the pass.
next_trigger(data) == get_cycle(data.name).triggers[current_step_of(data) + 1]

\* A watcher that writes the record back as it read it.
KeepRecord(data) == data

\* active_cycle_data["status"] = "stopped"
StoppedRecord(data) == [data EXCEPT !.status = "stopped"]

\* A watcher that does not move the step counter.
advance_none(current_step) == current_step

\* current_step + 1
advance(current_step) == current_step + 1

\* 1. Check for an active cycle: a record that is missing or not running
\* sends the watcher back to sleep.
ReadActive ==
    /\ UNCHANGED notCycleVars
    /\ wpc = "read_active"
    /\ IF active_cycle.status = "running"
         THEN /\ active_cycle_data' = active_cycle
              /\ wpc' = "read_status"
         ELSE UNCHANGED <<active_cycle_data, wpc>>
    /\ UNCHANGED <<active_cycle, llm_status, cycle_trigger, generating, tpc,
                   current_state, selected_cycle, injected, idleReports, observed,
                   llm_at_start, stopped_by_toggle, idle_since>>

\* 2. Check if the LLM is idle; 3. look the cycle up and decide.
ReadStatus ==
    /\ UNCHANGED notCycleVars
    /\ wpc = "read_status"
    /\ IF llm_status # "idle"
         THEN /\ wpc' = "read_active"
              /\ active_cycle_data' = NoRecord
              /\ UNCHANGED observed
         ELSE /\ wpc' = IF Resolve(active_cycle_data) = "stop"
                          THEN "write_stopped" ELSE "write_busy"
              /\ observed' = IF observed < MaxIdleReports
                                THEN observed + 1 ELSE observed
              /\ UNCHANGED active_cycle_data
    /\ UNCHANGED <<active_cycle, llm_status, cycle_trigger, generating, tpc,
                   current_state, selected_cycle, injected, idleReports,
                   llm_at_start, stopped_by_toggle, idle_since>>

\* The cycle is invalid, empty or finished: write the record back stopped.
WriteStopped ==
    /\ UNCHANGED notCycleVars
    /\ wpc = "write_stopped"
    /\ active_cycle' = StoppedRecord(active_cycle_data)
    /\ wpc' = "read_active"
    /\ active_cycle_data' = NoRecord
    /\ UNCHANGED <<llm_status, cycle_trigger, generating, tpc,
                   current_state, selected_cycle, injected, idleReports, observed,
                   llm_at_start, stopped_by_toggle, idle_since>>

\* self._write_flag_file(self.llm_status_flag_path, "busy")
WriteBusy ==
    /\ UNCHANGED notCycleVars
    /\ wpc = "write_busy"
    /\ llm_status' = "busy"
    /\ wpc' = "write_trigger"
    /\ UNCHANGED <<active_cycle, cycle_trigger, generating, active_cycle_data,
                   tpc, current_state, selected_cycle, injected, idleReports, observed,
                   llm_at_start, stopped_by_toggle, idle_since>>

\* self._write_flag_file(self.cycle_trigger_path, next_trigger['prompt'])
WriteTrigger ==
    /\ UNCHANGED notCycleVars
    /\ wpc = "write_trigger"
    /\ cycle_trigger' = next_trigger(active_cycle_data).prompt
    /\ injected' = Append(injected, next_trigger(active_cycle_data).prompt)
    /\ idle_since' = FALSE
    /\ wpc' = "write_step"
    /\ UNCHANGED <<active_cycle, llm_status, generating, active_cycle_data,
                   tpc, current_state, selected_cycle, idleReports, observed,
                   llm_at_start, stopped_by_toggle>>

\* 5. Update the cycle state: the record the pass read, one step on.
WriteStep ==
    /\ UNCHANGED notCycleVars
    /\ wpc = "write_step"
    /\ active_cycle' = [active_cycle_data EXCEPT
                          !.current_step = advance(current_step_of(active_cycle_data))]
    /\ wpc' = "read_active"
    /\ active_cycle_data' = NoRecord
    /\ UNCHANGED <<llm_status, cycle_trigger, generating, tpc,
                   current_state, selected_cycle, injected, idleReports, observed,
                   llm_at_start, stopped_by_toggle, idle_since>>

\* One step of CycleWatcher.run.
WatcherStep ==
    \/ ReadActive
    \/ ReadStatus
    \/ WriteStopped
    \/ WriteBusy
    \/ WriteTrigger
    \/ WriteStep

(* the consumer's side of the flags *)

\* _watch_cycle_trigger_file and the inject_trigger message: the consumer
\* reads and unlinks cycle_trigger.txt and sends the prompt to the model,
\* writing busy.
inject_trigger ==
    /\ UNCHANGED notCycleVars
    /\ cycle_trigger # NoTrigger /\ ~generating
    /\ cycle_trigger' = NoTrigger
    /\ generating' = TRUE
    /\ llm_status' = "busy"
    /\ UNCHANGED <<active_cycle, wpc, active_cycle_data, tpc, current_state,
                   selected_cycle, injected, idleReports, observed, llm_at_start,
                   stopped_by_toggle, idle_since>>

\* The user sends a message (or a job runs): _write_llm_status("busy").
send_message ==
    /\ UNCHANGED notCycleVars
    /\ ~generating
    /\ generating' = TRUE
    /\ llm_status' = "busy"
    /\ UNCHANGED <<active_cycle, cycle_trigger, wpc, active_cycle_data, tpc,
                   current_state, selected_cycle, injected, idleReports, observed,
                   llm_at_start, stopped_by_toggle, idle_since>>

\* The generation ends: the enable_send message, _write_llm_status("idle").
enable_send ==
    /\ UNCHANGED notCycleVars
    /\ generating
    /\ generating' = FALSE
    /\ llm_status' = "idle"
    /\ idleReports' = IF idleReports < MaxIdleReports
                        THEN idleReports + 1 ELSE idleReports
    /\ idle_since' = TRUE
    /\ UNCHANGED <<active_cycle, cycle_trigger, wpc, active_cycle_data, tpc,
                   current_state, selected_cycle, injected, observed,
                   llm_at_start, stopped_by_toggle>>

\* toggle_cycle up to the read of active_cycle.json.
ToggleRead(selected) ==
    /\ UNCHANGED notCycleVars
    /\ tpc = "idle"
    /\ selected_cycle' = selected
    /\ current_state' = active_cycle
    /\ tpc' = "write"
    /\ UNCHANGED <<active_cycle, llm_status, cycle_trigger, generating, wpc,
                   active_cycle_data, injected, idleReports, observed, llm_at_start,
                   stopped_by_toggle, idle_since>>

\* new_state of toggle_cycle: stop the selected cycle if the record read
\* says it is running, start it otherwise.
new_state(state, selected) ==
    IF state.name = selected /\ state.status = "running"
      THEN [name |-> selected, status |-> "stopped", current_step |-> None]
      ELSE [name |-> selected, status |-> "running", current_step |-> 0]

\* toggle_cycle writes the new state.
ToggleWrite ==
    /\ UNCHANGED notCycleVars
    /\ tpc = "write"
    /\ active_cycle' = new_state(current_state, selected_cycle)
    /\ IF new_state(current_state, selected_cycle).status = "running"
         THEN /\ injected' = << >>
              /\ idleReports' = 0
              /\ observed' = 0
              /\ llm_at_start' = llm_status
              /\ stopped_by_toggle' = FALSE
         ELSE /\ stopped_by_toggle' = TRUE
              /\ UNCHANGED <<injected, idleReports, observed, llm_at_start>>
    /\ tpc' = "idle"
    /\ current_state' = NoRecord
    /\ selected_cycle' = ""
    /\ UNCHANGED <<llm_status, cycle_trigger, generating, wpc,
                   active_cycle_data, idle_since>>

\* The flags as the consumer leaves them at startup (ensure_llm_status_flag
\* writes idle), with no cycle ever started.
InitCycle ==
    /\ active_cycle = NoRecord
    /\ llm_status = "idle"
    /\ cycle_trigger = NoTrigger
    /\ generating = FALSE
    /\ wpc = "read_active"
    /\ active_cycle_data = NoRecord
    /\ tpc = "idle"
    /\ current_state = NoRecord
    /\ selected_cycle = ""
    /\ injected = << >>
    /\ idleReports = 0
    /\ observed = 0
    /\ llm_at_start = "idle"
    /\ stopped_by_toggle = FALSE
    /\ idle_since = TRUE

\* The cycle "three" has just been started by toggle_cycle, while the
\* consumer was idle or while it was generating.
InitCycleRun ==
    /\ active_cycle = [name |-> "three", status |-> "running", current_step |-> 0]
    /\ llm_status \in {"idle", "busy"}
    /\ generating = (llm_status = "busy")
    /\ llm_at_start = llm_status
    /\ cycle_trigger = NoTrigger
    /\ wpc = "read_active"
    /\ active_cycle_data = NoRecord
    /\ tpc = "idle"
    /\ current_state = NoRecord
    /\ selected_cycle = ""
    /\ injected = << >>
    /\ idleReports = 0
    /\ observed = 0
    /\ stopped_by_toggle = FALSE
    /\ idle_since = TRUE

(* ------------------------ CycleManager: cycles.json ------------------- *)

\* The longest trigger list a cycle is given in one run.
MaxTriggers == 3

\* The cycles the managers create and edit.
ManagedCycles == {"ca", "cb"}

TriggerNames == {"t0", "t1", "t2"}

TriggerPrompts == {"p", "q"}

\* A name that is not a key of self.cycles.
NoCycle == [exists |-> FALSE, triggers |-> << >>]

\* {"name": name, "type": ..., "description": ..., "triggers": []}
EmptyCycle == [exists |-> TRUE, triggers |-> << >>]

\* No cycle at all: {} (no cycles.json, or an empty one).
NoCycles == [c \in ManagedCycles |-> NoCycle]

\* create_cycle on the dict self.cycles: nothing changes if the name exists.
create_cycle(cycles_, name) ==
    IF cycles_[name].exists THEN cycles_
    ELSE [cycles_ EXCEPT ![name] = EmptyCycle]

\* delete_cycle
delete_cycle(cycles_, name) ==
    IF cycles_[name].exists THEN [cycles_ EXCEPT ![name] = NoCycle]
    ELSE cycles_

\* update_cycle_triggers
update_cycle_triggers(cycles_, cycle_name, triggers) ==
    IF cycles_[cycle_name].exists
      THEN [cycles_ EXCEPT ![cycle_name].triggers = triggers]
      ELSE cycles_

\* An add that appends whether or not the name is already there.
add_trigger_always_append(cycles_, cycle_name, trigger_name, trigger_prompt) ==
    IF ~cycles_[cycle_name].exists THEN cycles_
    ELSE [cycles_ EXCEPT ![cycle_name].triggers =
             Append(@, [name |-> trigger_name, prompt |-> trigger_prompt])]

\* add_trigger_to_cycle: the first trigger with the name gets the prompt;
\* if there is none, a new trigger is appended.
add_trigger_to_cycle(cycles_, cycle_name, trigger_name, trigger_prompt) ==
    IF ~cycles_[cycle_name].exists THEN cycles_
    ELSE LET triggers == cycles_[cycle_name].triggers
             found == {i \in DOMAIN triggers : triggers[i].name = trigger_name}
         IN IF found # {}
              THEN LET first == CHOOSE i \in found : \A j \in found : i <= j
                   IN [cycles_ EXCEPT ![cycle_name].triggers[first].prompt =
                                         trigger_prompt]
              ELSE [cycles_ EXCEPT ![cycle_name].triggers =
                      Append(@, [name |-> trigger_name, prompt |-> trigger_prompt])]

\* delete_trigger_from_cycle
delete_trigger_from_cycle(cycles_, cycle_name, trigger_name) ==
    IF ~cycles_[cycle_name].exists THEN cycles_
    ELSE [cycles_ EXCEPT ![cycle_name].triggers =
             SelectSeq(@, LAMBDA t : t.name # trigger_name)]

\* prompt_map of on_trigger_list_reorder: a later trigger of the same name
\* wins.
prompt_map(triggers, trigger_name) ==
    LET found == {i \in DOMAIN triggers : triggers[i].name = trigger_name}
        last == CHOOSE i \in found : \A j \in found : j <= i
    IN triggers[last].prompt

\* new_triggers of on_trigger_list_reorder, for the names of the list box in
\* their new order.
on_trigger_list_reorder(triggers, items) ==
    LET known == SelectSeq(items,
                   LAMBDA n : \E i \in DOMAIN triggers : triggers[i].name = n)
    IN [i \in DOMAIN known |->
          [name |-> known[i], prompt |-> prompt_map(triggers, known[i])]]

\* The orders in which the list box can show the triggers after a drag.
Reorderings(triggers) ==
    LET n == Len(triggers)
        perms == {f \in [1..n -> 1..n] : \A i, j \in 1..n : f[i] = f[j] => i = j}
    IN {[i \in 1..n |-> triggers[f[i]].name] : f \in perms}

\* A CRUD call of the manager p ends: self.cycles is as the call left it and,
\* if the call saved, _save_cycles has written all of self.cycles to
\* cycles.json under the lock.
Finish(p, new_cycles, saved, call) ==
    /\ ~lockFile.exists
    /\ cycles' = [cycles EXCEPT ![p] = new_cycles]
    /\ cyclesFile' = IF saved THEN new_cycles ELSE cyclesFile
    /\ cmCall' = call
    /\ UNCHANGED notCMVars

CreateCycle(p, name) ==
    /\ name \in ManagedCycles
    /\ Finish(p, create_cycle(cycles[p], name), ~cycles[p][name].exists,
              [op |-> "create_cycle", cycle |-> name, name |-> "", prompt |-> ""])

DeleteCycle(p, name) ==
    /\ name \in ManagedCycles
    /\ Finish(p, delete_cycle(cycles[p], name), cycles[p][name].exists,
              [op |-> "delete_cycle", cycle |-> name, name |-> "", prompt |-> ""])

AddTrigger(p, cycle_name, trigger_name, trigger_prompt) ==
    /\ Len(cycles[p][cycle_name].triggers) < MaxTriggers
          \/ \E i \in DOMAIN cycles[p][cycle_name].triggers :
                cycles[p][cycle_name].triggers[i].name = trigger_name
    /\ Finish(p, add_trigger_to_cycle(cycles[p], cycle_name, trigger_name, trigger_prompt),
              cycles[p][cycle_name].exists,
              [op |-> "add_trigger_to_cycle", cycle |-> cycle_name,
               name |-> trigger_name, prompt |-> trigger_prompt])

DeleteTrigger(p, cycle_name, trigger_name) ==
    /\ cycle_name \in ManagedCycles
    /\ Finish(p, delete_trigger_from_cycle(cycles[p], cycle_name, trigger_name),
              Len(delete_trigger_from_cycle(cycles[p], cycle_name, trigger_name)[cycle_name].triggers)
                 < Len(cycles[p][cycle_name].triggers),
              [op |-> "delete_trigger_from_cycle", cycle |-> cycle_name,
               name |-> trigger_name, prompt |-> ""])

\* The user drags a trigger of the selected cycle to a new place.
ReorderTriggers(p, cycle_name) ==
    /\ cycles[p][cycle_name].exists
    /\ \E items \in Reorderings(cycles[p][cycle_name].triggers) :
          Finish(p, update_cycle_triggers(cycles[p], cycle_name,
                       on_trigger_list_reorder(cycles[p][cycle_name].triggers, items)),
                 TRUE,
                 [op |-> "update_cycle_triggers", cycle |-> cycle_name,
                  name |-> "", prompt |-> ""])

\* The cycle each of two managers works on.
OwnCycle(p) == IF p = 1 THEN "ca" ELSE "cb"

\* No cycles.json yet; every manager has loaded {}.
InitCycles ==
    /\ cycles = [p \in Procs |-> NoCycles]
    /\ cyclesFile = NoCycles
    /\ cmCall = [op |-> "none", cycle |-> "", name |-> "", prompt |-> ""]

\* cycles.json as it is when the watcher and the consumer start: the cycle
\* "cb" with one trigger, and no cycle "ca".
LoadedCycles ==
    [NoCycles EXCEPT !["cb"] =
        [exists |-> TRUE, triggers |-> << [name |-> "t0", prompt |-> "p"] >>]]

\* Every manager has loaded that file.
InitLoaded ==
    /\ cycles = [p \in Procs |-> LoadedCycles]
    /\ cyclesFile = LoadedCycles
    /\ cmCall = [op |-> "none", cycle |-> "", name |-> "", prompt |-> ""]

\* Start/Stop Cycle in the consumer: the selector offers the cycles of the
\* consumer's own CycleManager.
ToggleManaged ==
    \E selected \in ManagedCycles :
        /\ cycles[1][selected].exists
        /\ ToggleRead(selected)

(* ----------------------- DeltaManager: the manifest ------------------- *)

\* Number of create_delta calls in one run.
MaxDeltas == 2

\* The longest list append_to_section builds in one run.
MaxNotes == 1

\* relative_path of the n-th delta file created (the name carries a
\* timestamp and a uuid: no two are equal).
relative_path(n) == <<"d1", "d2", "d3", "d4">>[n]

\* The keys and values update_simple_delta is called with.
SimpleKeys == {"k1", "k2"}

SimpleValues == {"v1", "v2"}

\* {"deltas": []}, as _load_manifest creates it. simple_deltas is a dict, in
\* insertion order; notes stands for any other section, a list; a section
\* that is missing is represented like an empty one.
EmptyManifest == [deltas |-> << >>, simple_deltas |-> << >>, notes |-> << >>]

\* _manifest.json holding the JSON text of a manifest.
OkFile(manifest_) == [state |-> "ok", manifest |-> manifest_]

\* _manifest.json holding text that json.load rejects.
CorruptFile == [state |-> "corrupt", manifest |-> EmptyManifest]

\* No _manifest.json.
AbsentFile == [state |-> "absent", manifest |-> EmptyManifest]

\* A _load_manifest that leaves a missing or corrupt file as it is.
keep_file(file) == file

\* What _load_manifest leaves on disk: a missing or corrupt manifest is
\* replaced by the empty one at once.
healed(file) == IF file.state = "ok" THEN file ELSE OkFile(EmptyManifest)

\* self.manifest after _load_manifest.
_load_manifest(file) ==
    IF file.state = "ok" THEN file.manifest ELSE EmptyManifest

\* A set_item that adds an entry whether or not the key is there.
append_item(dict, key, value) == Append(dict, [key |-> key, value |-> value])

\* self.manifest[section][key] = value on a dict kept in insertion order.
set_item(dict, key, value) ==
    IF \E i \in DOMAIN dict : dict[i].key = key
      THEN [i \in DOMAIN dict |->
              IF dict[i].key = key THEN [key |-> key, value |-> value] ELSE dict[i]]
      ELSE Append(dict, [key |-> key, value |-> value])

\* delta_content of the file at a relative path (one line).
delta_content(path) == "DELTA|" \o path

\* A render that gives the delta files up when one of them is missing.
file_contents_or_none(paths, files) ==
    IF \A i \in DOMAIN paths : paths[i] \in files
      THEN [i \in DOMAIN paths |-> delta_content(paths[i])]
      ELSE << >>

\* Parts 1 and 2 of get_delta_content: the contents of the listed delta
\* files that exist, then the simple deltas' values.
RECURSIVE file_contents(_, _)
file_contents(paths, files) ==
    IF paths = << >> THEN << >>
    ELSE (IF Head(paths) \in files THEN <<delta_content(Head(paths))>> ELSE << >>)
            \o file_contents(Tail(paths), files)

\* Part 3: a block for the other section, if it has any content.
formatted_section(notes) ==
    IF notes = << >> THEN << >>
    ELSE <<"###NOTES_START###">> \o notes \o <<"###_END###">>

\* The text get_delta_content returns for a loaded manifest, as its lines;
\* no line at all is the empty string.
full_delta_block(manifest_, files) ==
    LET all_delta_contents ==
            file_contents(manifest_.deltas, files)
               \o [i \in DOMAIN manifest_.simple_deltas |->
                      manifest_.simple_deltas[i].value]
               \o formatted_section(manifest_.notes)
    IN IF all_delta_contents = << >> THEN << >>
       ELSE <<"###DELTAS_START###">> \o all_delta_contents \o <<"###DELTAS_END###">>

\* A mutation or an outside change ends a run of consecutive renders.
EndStreak ==
    /\ callsInRow' = 0
    /\ render_prev' = << >>
    /\ render_last' = << >>
    /\ fileBefore' = AbsentFile

\* Each action below is one section of code run while manifest_lock
\* (deltas/_manifest.lock) is held, or a call made of one such section.

\* create_delta: the delta file is written, its path is appended to the
\* in-memory manifest and _save_manifest writes that manifest under the lock.
CreateDelta(p) ==
    /\ dpc[p].at = "idle"
    /\ deltasMade < MaxDeltas
    /\ LET path == relative_path(deltasMade + 1)
           manifest_ == [manifest[p] EXCEPT !.deltas = Append(@, path)]
       IN /\ deltaFiles' = deltaFiles \cup {path}
          /\ manifest' = [manifest EXCEPT ![p] = manifest_]
          /\ manifestFile' = OkFile(manifest_)
          /\ appended' = appended \cup {path}
    /\ deltasMade' = deltasMade + 1
    /\ EndStreak
    /\ UNCHANGED <<dpc, keysSet>>
    /\ UNCHANGED notDeltaVars

\* set_section_value("simple_deltas", key, value) up to its _save_manifest:
\* _load_manifest under the lock, then the change in memory.
BeginSetSectionValue(p, key, value) ==
    /\ dpc[p].at = "idle"
    /\ manifest' = [manifest EXCEPT ![p] =
                      [_load_manifest(manifestFile) EXCEPT
                          !.simple_deltas = set_item(@, key, value)]]
    /\ manifestFile' = healed(manifestFile)
    /\ dpc' = [dpc EXCEPT ![p] = [at |-> "save", key |-> key]]
    /\ EndStreak
    /\ UNCHANGED <<deltaFiles, deltasMade, appended, keysSet>>
    /\ UNCHANGED notDeltaVars

\* append_to_section("notes", value) up to its _save_manifest.
BeginAppendToSection(p, value) ==
    /\ dpc[p].at = "idle"
    /\ Len(_load_manifest(manifestFile).notes) < MaxNotes
    /\ manifest' = [manifest EXCEPT ![p] =
                      [_load_manifest(manifestFile) EXCEPT
                          !.notes = Append(@, value)]]
    /\ manifestFile' = healed(manifestFile)
    /\ dpc' = [dpc EXCEPT ![p] = [at |-> "save", key |-> ""]]
    /\ EndStreak
    /\ UNCHANGED <<deltaFiles, deltasMade, appended, keysSet>>
    /\ UNCHANGED notDeltaVars

\* _save_manifest at the end of set_section_value / append_to_section: the
\* in-memory manifest replaces the file, under the lock.
SaveManifest(p) ==
    /\ dpc[p].at = "save"
    /\ manifestFile' = OkFile(manifest[p])
    /\ keysSet' = IF dpc[p].key = "" THEN keysSet ELSE keysSet \cup {dpc[p].key}
    /\ dpc' = [dpc EXCEPT ![p] = [at |-> "idle", key |-> ""]]
    /\ EndStreak
    /\ UNCHANGED <<manifest, deltaFiles, deltasMade, appended>>
    /\ UNCHANGED notDeltaVars

\* get_delta_content: _load_manifest, then the block is built.
GetDeltaContent(p) ==
    /\ dpc[p].at = "idle"
    /\ manifest' = [manifest EXCEPT ![p] = _load_manifest(manifestFile)]
    /\ manifestFile' = healed(manifestFile)
    /\ render_prev' = render_last
    /\ render_last' = full_delta_block(_load_manifest(manifestFile), deltaFiles)
    /\ callsInRow' = IF callsInRow < 2 THEN callsInRow + 1 ELSE 2
    /\ fileBefore' = IF callsInRow = 0 THEN manifestFile ELSE fileBefore
    /\ UNCHANGED <<dpc, deltaFiles, deltasMade, appended, keysSet>>
    /\ UNCHANGED notDeltaVars

\* Something outside the DeltaManager leaves _manifest.json unparseable
\* (for instance a process killed inside the plain open(..., 'w') of
\* _load_manifest) or removes it.
DamageManifest ==
    /\ manifestFile.state = "ok"
    /\ manifestFile' \in {CorruptFile, AbsentFile}
    /\ EndStreak
    /\ UNCHANGED <<manifest, dpc, deltaFiles, deltasMade, appended, keysSet>>
    /\ UNCHANGED notDeltaVars

\* A delta file listed in the manifest is deleted from outside.
RemoveDeltaFile ==
    /\ \E path \in deltaFiles : deltaFiles' = deltaFiles \ {path}
    /\ EndStreak
    /\ UNCHANGED <<manifest, manifestFile, dpc, deltasMade, appended, keysSet>>
    /\ UNCHANGED notDeltaVars

\* Every DeltaManager has been built: _load_manifest has created the empty
\* manifest.
InitDelta ==
    /\ manifest = [p \in Procs |-> EmptyManifest]
    /\ manifestFile = OkFile(EmptyManifest)
    /\ deltaFiles = {}
    /\ dpc = [p \in Procs |-> [at |-> "idle", key |-> ""]]
    /\ deltasMade = 0
    /\ appended = {}
    /\ keysSet = {}
    /\ render_prev = << >>
    /\ render_last = << >>
    /\ callsInRow = 0
    /\ fileBefore = AbsentFile

(* -------------- _write_queue_unsafe, step by step, and kills ---------- *)

\* job_queue.json.tmp does not exist.
NoTemp == [exists |-> FALSE, complete |-> FALSE, data |-> << >>]

\* Another running process has a file object open on the file that p's
\* file object writes to.
SharedHandle(p) ==
    \E q \in Procs \ {p} : alive[q] /\ wfd[q] = wfd[p]

\* `with open(temp_path, 'w')`: temp_path is job_queue.json.tmp for every
\* writer; the file is created, or truncated if it is there.
OpenTemp(p) ==
    /\ alive[p] /\ pc[p] = "acquired" /\ op[p] = "add_write"
    /\ tmpFile' = [exists |-> TRUE, complete |-> FALSE, data |-> << >>]
    /\ wfd' = [wfd EXCEPT ![p] = "tmp"]
    /\ op' = [op EXCEPT ![p] = "add_dump"]
    /\ UNCHANGED <<queue_data, new_job, queueVars, queueTorn, diedIn>>
    /\ UNCHANGED <<lockVars, schedVars, shareVars, cycleVars, cmVars, deltaVars>>
    /\ UNCHANGED notCrashVars

\* json.dump(queue_data, f) and the end of the with: the text reaches the
\* file that the file object was opened on, whatever its name is by now.
\* Two file objects writing one file leave either writer's text or a mix.
DumpTemp(p) ==
    /\ alive[p] /\ pc[p] = "acquired" /\ op[p] = "add_dump"
    /\ \E whole \in (IF SharedHandle(p) THEN BOOLEAN ELSE {TRUE}) :
          LET data == IF whole THEN queue_data[p] ELSE << >>
          IN CASE wfd[p] = "tmp" ->
                    /\ tmpFile' = [exists |-> TRUE, complete |-> whole, data |-> data]
                    /\ UNCHANGED <<queueFile, queueTorn>>
               [] wfd[p] = "target" ->
                    /\ queueFile' = data
                    /\ queueTorn' = ~whole
                    /\ UNCHANGED tmpFile
               [] OTHER -> UNCHANGED <<tmpFile, queueFile, queueTorn>>
    /\ wfd' = [wfd EXCEPT ![p] = "none"]
    /\ op' = [op EXCEPT ![p] = "add_move"]
    /\ UNCHANGED <<queue_data, new_job, begun, added, returned, pending, diedIn>>
    /\ UNCHANGED <<lockVars, schedVars, shareVars, cycleVars, cmVars, deltaVars>>
    /\ UNCHANGED notCrashVars

\* shutil.move(temp_path, self.queue_path): the file named job_queue.json.tmp
\* becomes job_queue.json, with whatever it holds; if there is no such file
\* the OSError is caught and printed. The with-body ends.
MoveTemp(p) ==
    /\ alive[p] /\ pc[p] = "acquired" /\ op[p] = "add_move"
    /\ IF tmpFile.exists
         THEN /\ queueFile' = tmpFile.data
              /\ queueTorn' = ~tmpFile.complete
              /\ tmpFile' = NoTemp
              /\ wfd' = [q \in Procs |->
                           IF wfd[q] = "tmp" THEN "target"
                           ELSE IF wfd[q] = "target" THEN "gone" ELSE wfd[q]]
         ELSE UNCHANGED <<queueFile, queueTorn, tmpFile, wfd>>
    /\ added' = Append(added, new_job[p])
    /\ op' = [op EXCEPT ![p] = "done"]
    /\ UNCHANGED <<queue_data, new_job, begun, returned, pending, diedIn>>
    /\ UNCHANGED <<lockVars, schedVars, shareVars, cycleVars, cmVars, deltaVars>>
    /\ UNCHANGED notCrashVars

\* The process is killed between the open of the temp file and the move.
KillWriter(p) ==
    /\ alive[p] /\ op[p] \in {"add_dump", "add_move"}
    /\ alive' = [alive EXCEPT ![p] = FALSE]
    /\ pc' = [pc EXCEPT ![p] = "dead"]
    /\ Forget(p)
    /\ diedIn' = [diedIn EXCEPT ![p] = op[p]]
    /\ UNCHANGED <<lockFile, lockInit, queueVars, tmpFile, queueTorn, wfd>>
    /\ UNCHANGED <<schedVars, shareVars, cycleVars, cmVars, deltaVars>>
    /\ UNCHANGED notCrashVars

InitCrash ==
    /\ tmpFile = NoTemp
    /\ queueTorn = FALSE
    /\ wfd = [p \in Procs |-> "none"]
    /\ diedIn = [p \in Procs |-> "none"]

(* ------------- DeltaManager file writes, step by step, and kills ------ *)

\* No temp file of p's _save_manifest.
NoManifestTemp == [exists |-> FALSE, manifest |-> EmptyManifest]

\* `with self.manifest_lock` is entered: the lock is free, or its holder is
\* dead and the lock file is removed as stale.
LockManifest(p) ==
    /\ IF dlock = 0 THEN TRUE ELSE dstep[dlock] = "dead"
    /\ dlock' = p

\* DeltaManager(...) in a new process, or _load_manifest at the start of
\* set_section_value / append_to_section / get_delta_content: the lock is
\* taken and the file is read; a missing or unparseable file leaves the
\* empty manifest in memory, to be written.
LoadRead(p) ==
    /\ dstep[p] \in {"unbuilt", "ready"}
    /\ LockManifest(p)
    /\ manifest' = [manifest EXCEPT ![p] = _load_manifest(manifestFile)]
    /\ dstep' = [dstep EXCEPT ![p] =
                   IF manifestFile.state = "ok" THEN "loaded" ELSE "heal_open"]
    /\ UNCHANGED <<manifestFile, deltaFiles, dpc, deltasMade, appended, keysSet,
                   render_prev, render_last, callsInRow, fileBefore>>
    /\ UNCHANGED <<mtmp, dkilled>>
    /\ UNCHANGED <<lockVars, localVars, queueVars, schedVars, shareVars,
                   cycleVars, cmVars>>
    /\ UNCHANGED notDcVars

\* The with-body of _load_manifest ends after a successful json.load.
LoadDone(p) ==
    /\ dstep[p] = "loaded"
    /\ dstep' = [dstep EXCEPT ![p] = "ready"]
    /\ dlock' = 0
    /\ UNCHANGED <<mtmp, dkilled>>
    /\ UNCHANGED <<lockVars, localVars, queueVars, schedVars, shareVars,
                   cycleVars, cmVars, deltaVars>>
    /\ UNCHANGED notDcVars

\* `with open(self.manifest_path, 'w')` in _load_manifest: _manifest.json is
\* created, or truncated, under its own name.
HealOpen(p) ==
    /\ dstep[p] = "heal_open"
    /\ manifestFile' = CorruptFile
    /\ dstep' = [dstep EXCEPT ![p] = "heal_dump"]
    /\ UNCHANGED <<manifest, deltaFiles, dpc, deltasMade, appended, keysSet,
                   render_prev, render_last, callsInRow, fileBefore>>
    /\ UNCHANGED <<mtmp, dlock, dkilled>>
    /\ UNCHANGED <<lockVars, localVars, queueVars, schedVars, shareVars,
                   cycleVars, cmVars>>
    /\ UNCHANGED notDcVars

\* json.dump(self.manifest, f) and the end of both withs.
HealDump(p) ==
    /\ dstep[p] = "heal_dump"
    /\ manifestFile' = OkFile(manifest[p])
    /\ dstep' = [dstep EXCEPT ![p] = "ready"]
    /\ dlock' = 0
    /\ UNCHANGED <<manifest, deltaFiles, dpc, deltasMade, appended, keysSet,
                   render_prev, render_last, callsInRow, fileBefore>>
    /\ UNCHANGED <<mtmp, dkilled>>
    /\ UNCHANGED <<lockVars, localVars, queueVars, schedVars, shareVars,
                   cycleVars, cmVars>>
    /\ UNCHANGED notDcVars

\* create_delta up to the os.replace of _save_manifest: the delta file is
\* in place, its path is in self.manifest, the lock is taken and the temp
\* file (a name of its own for every save) is written and fsynced.
SaveTemp(p) ==
    /\ dstep[p] = "ready"
    /\ deltasMade < MaxDeltas
    /\ LockManifest(p)
    /\ LET path == relative_path(deltasMade + 1)
           manifest_ == [manifest[p] EXCEPT !.deltas = Append(@, path)]
       IN /\ deltaFiles' = deltaFiles \cup {path}
          /\ manifest' = [manifest EXCEPT ![p] = manifest_]
          /\ mtmp' = [mtmp EXCEPT ![p] = [exists |-> TRUE, manifest |-> manifest_]]
    /\ deltasMade' = deltasMade + 1
    /\ dstep' = [dstep EXCEPT ![p] = "replace"]
    /\ UNCHANGED <<manifestFile, dpc, appended, keysSet,
                   render_prev, render_last, callsInRow, fileBefore>>
    /\ UNCHANGED dkilled
    /\ UNCHANGED <<lockVars, localVars, queueVars, schedVars, shareVars,
                   cycleVars, cmVars>>
    /\ UNCHANGED notDcVars

\* os.replace(temp_path, self.manifest_path); the with ends and create_delta
\* returns the path.
ReplaceManifest(p) ==
    /\ dstep[p] = "replace"
    /\ manifestFile' = OkFile(mtmp[p].manifest)
    /\ mtmp' = [mtmp EXCEPT ![p] = NoManifestTemp]
    /\ appended' = appended \cup {manifest[p].deltas[Len(manifest[p].deltas)]}
    /\ dstep' = [dstep EXCEPT ![p] = "ready"]
    /\ dlock' = 0
    /\ UNCHANGED <<manifest, deltaFiles, dpc, deltasMade, keysSet,
                   render_prev, render_last, callsInRow, fileBefore>>
    /\ UNCHANGED dkilled
    /\ UNCHANGED <<lockVars, localVars, queueVars, schedVars, shareVars,
                   cycleVars, cmVars>>
    /\ UNCHANGED notDcVars

\* The process is killed inside a DeltaManager operation; its files stay.
KillDelta(p) ==
    /\ dstep[p] \in {"loaded", "heal_open", "heal_dump", "replace"}
    /\ dstep' = [dstep EXCEPT ![p] = "dead"]
    /\ dkilled' = TRUE
    /\ UNCHANGED <<mtmp, dlock>>
    /\ UNCHANGED <<lockVars, localVars, queueVars, schedVars, shareVars,
                   cycleVars, cmVars, deltaVars>>
    /\ UNCHANGED notDcVars

\* The program is started again after a kill.
RestartDelta(p) ==
    /\ dstep[p] = "dead"
    /\ dlock # p
    /\ dstep' = [dstep EXCEPT ![p] = "unbuilt"]
    /\ manifest' = [manifest EXCEPT ![p] = EmptyManifest]
    /\ UNCHANGED <<manifestFile, deltaFiles, dpc, deltasMade, appended, keysSet,
                   render_prev, render_last, callsInRow, fileBefore>>
    /\ UNCHANGED <<mtmp, dlock, dkilled>>
    /\ UNCHANGED <<lockVars, localVars, queueVars, schedVars, shareVars,
                   cycleVars, cmVars>>
    /\ UNCHANGED notDcVars

\* Every DeltaManager of InitDelta is built and idle.
InitDc ==
    /\ dstep = [p \in Procs |-> "ready"]
    /\ mtmp = [p \in Procs |-> NoManifestTemp]
    /\ dlock = 0
    /\ dkilled = FALSE

\* A new deltas directory: no manifest yet and no DeltaManager built.
InitDcFresh ==
    /\ dstep = [p \in Procs |-> "unbuilt"]
    /\ mtmp = [p \in Procs |-> NoManifestTemp]
    /\ dlock = 0
    /\ dkilled = FALSE

\* InitDelta before the first DeltaManager is built.
InitDeltaFresh ==
    /\ manifest = [p \in Procs |-> EmptyManifest]
    /\ manifestFile = AbsentFile
    /\ deltaFiles = {}
    /\ dpc = [p \in Procs |-> [at |-> "idle", key |-> ""]]
    /\ deltasMade = 0
    /\ appended = {}
    /\ keysSet = {}
    /\ render_prev = << >>
    /\ render_last = << >>
    /\ callsInRow = 0
    /\ fileBefore = AbsentFile

(* ----------------------- verbatim memory watcher ---------------------- *)

\* `if self.message_count_in_block >= 50` in handle_input.
BlockSize == 50

\* Seconds on the wall clock of a run (the timestamps in directory names).
MaxVClock == 2

\* Session directories made in one run.
MaxSessions == 3

\* Inputs the consumer signals in one run of the session model.
MaxTurns == 2

\* The blocks that the conversation of the block model fills.
MaxBlocks == 1

\* Kills of the watcher in one run of the block model.
MaxKills == 1

\* The words the consumer writes to verbatim_state.txt.
SignalWords == {"input_ready", "output_ready", "shutdown", "force_new_session"}

\* What read_status can return otherwise: None for a missing file, the words
\* the watcher writes, any other text.
QuietWords == {"<absent>", "idle", "waiting_for_response", "junk"}

\* A path that is not set (None).
NoPath == [set |-> FALSE, start |-> 0, sid |-> 0, block |-> 0, ts |-> 0]

\* The attributes after VerbatimMemoryWatcher.__init__.
NewWatcher ==
    [current_session_dir |-> NoPath, current_block_dir |-> NoPath,
     current_file |-> NoPath, block_number |-> 1, message_count_in_block |-> 0]

\* A test `> 50` in place of `>= 50`.
block_full_late(count) == count > BlockSize

\* The test of handle_input for a full block.
block_full(count) == count >= BlockSize

\* len(parts) == 3: the directory name has no end timestamp.
IsOpen(s) == s.end = None

\* The order of sorted() on the names Session_<start> and
\* Session_<start>_<end> (timestamps have a fixed width; a name sorts before
\* the names it is a prefix of).
NameLeq(a, b) ==
    \/ a.start < b.start
    \/ /\ a.start = b.start
       /\ \/ a.end = None
          \/ b.end # None /\ a.end <= b.end

\* sessions[-1] of the sorted list.
last_session(S) == CHOOSE s \in S : \A t \in S : NameLeq(t, s)

\* The directories named by a path Session_<start> (one at most).
Named(S, start) == {s \in S : s.start = start /\ s.end = None}

\* The directory tree with session s replaced by t.
Replace(S, s, t) == (S \ {s}) \cup {t}

\* A block directory just made.
NewBlock(now) == [ts |-> now, files |-> 0, outputs |-> 0]

\* start_new_block for block number n: Block_<n>_<now> is made in the
\* current session directory (mkdir, exist_ok) and the count is reset.
start_new_block(S, m, n, now) ==
    LET s == CHOOSE s \in Named(S, m.current_session_dir.start) : TRUE
        blocks == IF n <= Len(s.blocks) THEN s.blocks
                  ELSE Append(s.blocks, NewBlock(now))
    IN [sessions |-> Replace(S, s, [s EXCEPT !.blocks = blocks]),
        m |-> [m EXCEPT !.current_block_dir =
                           [set |-> TRUE, start |-> s.start, sid |-> s.sid,
                            block |-> n, ts |-> blocks[n].ts],
                        !.block_number = n,
                        !.message_count_in_block = 0]]

\* start_new_session: without force, the last session directory in name
\* order is resumed if its name has no end timestamp, with its last block
\* and as many messages as that block has .txt files; otherwise
\* Session_<now> is made (mkdir, exist_ok) and block 1 started in it.
start_new_session(S, m, force, now, sid) ==
    IF ~force /\ S # {} /\ IsOpen(last_session(S))
      THEN LET s == last_session(S)
               n == Len(s.blocks)
               dir == [set |-> TRUE, start |-> s.start, sid |-> s.sid,
                       block |-> 0, ts |-> 0]
           IN [sessions |-> S,
               m |-> [m EXCEPT !.current_session_dir = dir,
                               !.current_block_dir =
                                   [dir EXCEPT !.block = n, !.ts = s.blocks[n].ts],
                               !.block_number = n,
                               !.message_count_in_block = s.blocks[n].files]]
      ELSE LET S1 == IF Named(S, now) # {} THEN S
                     ELSE S \cup {[sid |-> sid, start |-> now, end |-> None,
                                   blocks |-> << >>]}
               s == CHOOSE s \in Named(S1, now) : TRUE
               dir == [set |-> TRUE, start |-> now, sid |-> s.sid,
                       block |-> 0, ts |-> 0]
           IN start_new_block(S1, [m EXCEPT !.current_session_dir = dir], 1, now)

\* end_session: the current session directory, if it exists, is renamed to
\* Session_<start>_<now>; a rename onto an existing directory fails and the
\* error is printed.
end_session(S, m, now) ==
    IF ~m.current_session_dir.set \/ Named(S, m.current_session_dir.start) = {}
      THEN S
      ELSE LET s == CHOOSE s \in Named(S, m.current_session_dir.start) : TRUE
           IN IF \E t \in S : t.start = s.start /\ t.end = now THEN S
              ELSE Replace(S, s, [s EXCEPT !.end = now])

\* handle_input: a full block is followed by a new one; the turn file is
\* written into the current block directory.
handle_input(S, m, now) ==
    LET r == IF block_full(m.message_count_in_block)
               THEN start_new_block(S, m, m.block_number + 1, now)
               ELSE [sessions |-> S, m |-> m]
        dir == r.m.current_block_dir
        s == CHOOSE s \in Named(r.sessions, dir.start) : TRUE
    IN [sessions |-> Replace(r.sessions, s,
                       [s EXCEPT !.blocks[dir.block].files = @ + 1]),
        m |-> [r.m EXCEPT !.current_file = dir],
        raised |-> FALSE]

\* handle_output: without a current file the output is dropped. Otherwise
\* the file at the path self.current_file is opened for appending: that
\* raises if its directory is gone, and makes a new file if the directory
\* at that path is not the one the turn file was written to.
handle_output(S, m) ==
    LET file == m.current_file
        dirs == {s \in Named(S, file.start) :
                    /\ file.block <= Len(s.blocks)
                    /\ s.blocks[file.block].ts = file.ts}
    IN IF ~file.set THEN [sessions |-> S, m |-> m, raised |-> FALSE]
       ELSE IF dirs = {} THEN [sessions |-> S, m |-> m, raised |-> TRUE]
       ELSE LET s == CHOOSE s \in dirs : TRUE
                t == IF s.sid = file.sid
                       THEN [s EXCEPT !.blocks[file.block].outputs = @ + 1]
                       ELSE [s EXCEPT !.blocks[file.block].files = @ + 1]
            IN [sessions |-> Replace(S, s, t),
                m |-> [m EXCEPT !.message_count_in_block = @ + 1,
                                !.current_file = NoPath],
                raised |-> FALSE]

\* The .txt files and the appended outputs in the whole tree.
RECURSIVE SumBlocks(_, _)
SumBlocks(blocks, field) ==
    IF blocks = << >> THEN 0
    ELSE (IF field = "files" THEN Head(blocks).files ELSE Head(blocks).outputs)
            + SumBlocks(Tail(blocks), field)

\* The sid for the next directory, once S has been made.
NextSid(S, sid) == IF \E s \in S : s.sid = sid THEN sid + 1 ELSE sid

\* python verbatim_memory_watcher.py: __init__, then run() up to its loop.
StartWatcher ==
    /\ ~vrunning
    /\ IF sessions # {} /\ IsOpen(last_session(sessions)) THEN TRUE
       ELSE Cardinality(sessions) < MaxSessions
    /\ LET r == start_new_session(sessions, NewWatcher, FALSE, vclock, nextSid)
       IN /\ sessions' = r.sessions
          /\ vm' = r.m
          /\ vfound' = r.m.message_count_in_block
          /\ nextSid' = NextSid(r.sessions, nextSid)
    /\ vpairs' = 0
    /\ vrunning' = TRUE
    /\ vlast' = "start"
    /\ UNCHANGED <<vstatus, vclock, vinputs, vkills>>
    /\ UNCHANGED notVbVars

\* One pass of the loop of run(): read_status and the branch taken. An
\* exception raised in a handler leaves the rest of the branch undone.
PollStatus ==
    /\ vrunning
    /\ vlast' = "poll"
    /\ CASE vstatus = "input_ready" ->
              LET r == handle_input(sessions, vm, vclock)
              IN /\ sessions' = r.sessions
                 /\ vm' = r.m
                 /\ vstatus' = "waiting_for_response"
                 /\ vpairs' = IF r.m.block_number # vm.block_number THEN 0 ELSE vpairs
                 /\ vfound' = IF r.m.block_number # vm.block_number THEN 0 ELSE vfound
                 /\ UNCHANGED <<vrunning, nextSid>>
         [] vstatus = "output_ready" ->
              LET r == handle_output(sessions, vm)
              IN /\ sessions' = r.sessions
                 /\ vm' = r.m
                 /\ vstatus' = IF r.raised THEN vstatus ELSE "idle"
                 /\ vpairs' = IF r.m.message_count_in_block # vm.message_count_in_block
                                THEN vpairs + 1 ELSE vpairs
                 /\ UNCHANGED <<vrunning, nextSid, vfound>>
         [] vstatus = "shutdown" ->
              /\ sessions' = end_session(sessions, vm, vclock)
              /\ vrunning' = FALSE
              /\ UNCHANGED <<vm, vstatus, nextSid, vpairs, vfound>>
         [] vstatus = "force_new_session" ->
              LET r == start_new_session(end_session(sessions, vm, vclock),
                                         vm, TRUE, vclock, nextSid)
              IN /\ sessions' = r.sessions
                 /\ vm' = r.m
                 /\ vstatus' = "idle"
                 /\ nextSid' = NextSid(r.sessions, nextSid)
                 /\ vpairs' = 0
                 /\ vfound' = 0
                 /\ UNCHANGED vrunning
         [] OTHER ->
              UNCHANGED <<sessions, vm, vstatus, vrunning, nextSid, vpairs, vfound>>
    /\ UNCHANGED <<vclock, vinputs, vkills>>
    /\ UNCHANGED notVbVars

\* The consumer signals the watcher: an input when the user sends a
\* message, an output when the reply is complete, force_new_session from
\* the New Session button, shutdown when the window closes.
Signal(word) ==
    /\ word \in SignalWords
    /\ word = "input_ready" => vinputs < MaxTurns
    /\ word = "force_new_session" => Cardinality(sessions) < MaxSessions
    /\ vstatus' = word
    /\ vinputs' = IF word = "input_ready" THEN vinputs + 1 ELSE vinputs
    /\ vlast' = "signal"
    /\ UNCHANGED <<sessions, vm, vrunning, vclock, nextSid, vpairs, vfound, vkills>>
    /\ UNCHANGED notVbVars

\* The consumer in a conversation: an input when the watcher is not owed
\* anything, the output once the input has been taken.
Converse ==
    /\ vstatus \in {"<absent>", "idle", "waiting_for_response"}
    /\ vstatus # "waiting_for_response" => vm.block_number <= MaxBlocks
    /\ vstatus' = IF vstatus = "waiting_for_response" THEN "output_ready"
                  ELSE "input_ready"
    /\ vlast' = "signal"
    /\ UNCHANGED <<sessions, vm, vrunning, vclock, nextSid, vinputs, vpairs, vfound, vkills>>
    /\ UNCHANGED notVbVars

\* verbatim_state.txt holds some other text, or is removed.
Scribble(word) ==
    /\ word \in {"<absent>", "junk"}
    /\ vstatus' = word
    /\ vlast' = "signal"
    /\ UNCHANGED <<sessions, vm, vrunning, vclock, nextSid, vinputs, vpairs, vfound, vkills>>
    /\ UNCHANGED notVbVars

\* The watcher process is killed (no shutdown signal).
KillWatcher ==
    /\ vrunning
    /\ vkills < MaxKills
    /\ vkills' = vkills + 1
    /\ vrunning' = FALSE
    /\ vlast' = "kill"
    /\ UNCHANGED <<vstatus, sessions, vm, vclock, nextSid, vinputs, vpairs, vfound>>
    /\ UNCHANGED notVbVars

\* A second passes.
VTick ==
    /\ vclock < MaxVClock
    /\ vclock' = vclock + 1
    /\ vlast' = "tick"
    /\ UNCHANGED <<vstatus, sessions, vm, vrunning, nextSid, vinputs, vpairs, vfound, vkills>>
    /\ UNCHANGED notVbVars

\* No Chat_History yet, no status file, the watcher not started.
InitVb ==
    /\ vstatus = "<absent>"
    /\ sessions = {}
    /\ vm = NewWatcher
    /\ vrunning = FALSE
    /\ vclock = 0
    /\ nextSid = 1
    /\ vinputs = 0
    /\ vpairs = 0
    /\ vfound = 0
    /\ vkills = 0
    /\ vlast = "none"

(* ----------------------- EpisodicMemoryManager ------------------------ *)

\* The longest argument text, in lines.
MaxLines == 2

\* The lines an argument text is made of: a word, a line of one space, and
\* lines that read like tags of the entry format.
ArgLines == {"hello", BlankText, "/end_input", "/output"}

\* The argument texts: one line or more (a text is f-formatted and followed
\* by "\n": the empty string is one empty line). Texts are kept as the
\* sequence of their lines, "\n".join(...) being the way back.
RECURSIVE TextsUpTo(_)
TextsUpTo(n) ==
    IF n = 0 THEN {<< >>}
    ELSE TextsUpTo(n - 1)
           \cup {Append(t, l) : t \in {u \in TextsUpTo(n - 1) : Len(u) = n - 1},
                                l \in ArgLines}

Texts == TextsUpTo(MaxLines) \ {<< >>}

\* The texts the other block arguments are drawn from.
ShortTexts == {<<"hello">>, <<"/end_input">>}

Modes == {"chat", "job"}

\* "\n".join(content): no line at all gives the empty string, which is the
\* text of one empty line.
join(content) == IF content = << >> THEN <<"">> ELSE content

\* The lines of the file create_chat_entry writes (entry_id and the time
\* are the same for every entry here).
create_chat_entry(mode, user_input, model_output, summary_heading, summary) ==
    <<"/entry", "/id: e1", "/time: t1", "/mode: " \o mode>>
      \o <<"", "/input">> \o user_input \o <<"/end_input">>
      \o <<"", "/output">> \o model_output \o <<"/end_output">>
      \o <<"", "/summary_heading">> \o summary_heading \o <<"/end_summary">>
      \o <<"", "/summary">> \o summary \o <<"/end_summary">>
      \o <<"", "/end_entry">>

\* lines = [line.strip() for line in f.readlines()]
stripped(lines) == [i \in DOMAIN lines |-> strip(lines[i])]

\* _parse_block: the lines after start_index up to the first line equal to
\* end_tag, or to the end of the file; i is the index of that line.
RECURSIVE _parse_block(_, _, _, _)
_parse_block(lines, i, end_tag, content) ==
    IF i > Len(lines) THEN [i |-> i, block_content |-> join(content)]
    ELSE IF lines[i] = end_tag THEN [i |-> i, block_content |-> join(content)]
    ELSE _parse_block(lines, i + 1, end_tag, Append(content, lines[i]))

\* A key that parse_entry_file has not set.
NoText == <<"<no key>">>

NoData == [mode |-> "<no key>", input |-> NoText, output |-> NoText,
           summary_heading |-> NoText, summary |-> NoText]

\* The end tag of the block that a tag line opens.
end_tag_of(line) ==
    CASE line = "/input" -> "/end_input"
      [] line = "/output" -> "/end_output"
      [] line = "/summary_heading" -> "/end_summary"
      [] line = "/summary" -> "/end_summary"

\* data[key] = block_content, for the key of a tag line.
set_key(data, line, block_content) ==
    CASE line = "/input" -> [data EXCEPT !.input = block_content]
      [] line = "/output" -> [data EXCEPT !.output = block_content]
      [] line = "/summary_heading" -> [data EXCEPT !.summary_heading = block_content]
      [] line = "/summary" -> [data EXCEPT !.summary = block_content]

\* The while loop of parse_entry_file, from line i on.
RECURSIVE parse_lines(_, _, _)
parse_lines(lines, i, data) ==
    IF i > Len(lines) THEN data
    ELSE LET line == lines[i]
         IN IF \E mode \in Modes : line = "/mode: " \o mode
              THEN parse_lines(lines, i + 1,
                     [data EXCEPT !.mode =
                         CHOOSE mode \in Modes : line = "/mode: " \o mode])
            ELSE IF line \in {"/input", "/output", "/summary_heading", "/summary"}
              THEN LET b == _parse_block(lines, i + 1, end_tag_of(line), << >>)
                   IN parse_lines(lines, b.i + 1, set_key(data, line, b.block_content))
            ELSE parse_lines(lines, i + 1, data)

parse_entry_file(lines) == parse_lines(stripped(lines), 1, NoData)

\* create_chat_entry(...) is called and the entry file written.
CreateChatEntry ==
    /\ ep.step = "new"
    /\ ep' = [ep EXCEPT !.step = "written",
                        !.file = create_chat_entry(ep.mode, ep.user_input,
                                    ep.model_output, ep.summary_heading, ep.summary)]
    /\ UNCHANGED notEpVars

\* parse_entry_file(filepath) of the file written.
ParseEntryFile ==
    /\ ep.step = "written"
    /\ ep' = [ep EXCEPT !.step = "parsed", !.data = parse_entry_file(ep.file)]
    /\ UNCHANGED notEpVars

\* The arguments of one create_chat_entry call.
InitEpArgs ==
    ep \in [step : {"new"}, mode : Modes, user_input : Texts,
            model_output : ShortTexts, summary_heading : ShortTexts,
            summary : ShortTexts, file : {<< >>}, data : {NoData}]

\* No entry is being written.
InitEp ==
    ep = [step |-> "idle", mode |-> "chat", user_input |-> <<"hello">>,
          model_output |-> <<"hello">>, summary_heading |-> <<"hello">>,
          summary |-> <<"hello">>, file |-> << >>, data |-> NoData]

(* ------------- lock timeouts in the public operations ----------------- *)

\* The public operations that take a file lock with the default timeout.
LockingOps ==
    {"add_job", "get_next_job",
     "add_schedule", "delete_schedule", "get_and_remove_due_schedules",
     "create_cycle", "create_delta",
     "DeltaManager", "set_section_value", "append_to_section",
     "get_delta_content"}

\* The operations whose `with` on the lock stands inside a try whose except
\* clause matches TimeoutError: add_job and get_next_job (except
\* TimeoutError), the SchedulerManager's three (except TimeoutError),
\* _load_cycles / _save_cycles under the CycleManager's (TimeoutError in the
\* tuple), and create_delta, whose _save_manifest call is inside
\* `except Exception`. _load_manifest and _save_manifest have no try around
\* their `with self.manifest_lock`, and the constructor, set_section_value,
\* append_to_section and get_delta_content call them bare.
catches_timeout(o) ==
    o \in {"add_job", "get_next_job",
           "add_schedule", "delete_schedule", "get_and_remove_due_schedules",
           "create_cycle", "create_delta"}

\* The operation reaches its `with SimpleFileLock(...)`.
BeginCall(p, o) ==
    /\ calling[p] = "none"
    /\ Enter(p, DefaultTimeout)
    /\ calling' = [calling EXCEPT ![p] = o]
    /\ outcome' = [outcome EXCEPT ![p] = "none"]
    /\ UNCHANGED <<localVars, queueVars, schedVars, shareVars, cycleVars,
                   cmVars, deltaVars, notToVars>>

\* __enter__ has raised TimeoutError: the operation's except clause turns it
\* into the failure value, or there is none and the caller gets the
\* exception. Nothing was written either way.
Unwind(p) ==
    /\ alive[p] /\ pc[p] = "timed_out" /\ calling[p] # "none"
    /\ outcome' = [outcome EXCEPT ![p] =
                     IF catches_timeout(calling[p]) THEN "failure_value"
                                                 ELSE "TimeoutError"]
    /\ calling' = [calling EXCEPT ![p] = "none"]
    /\ pc' = [pc EXCEPT ![p] = "idle"]
    /\ Forget(p)
    /\ UNCHANGED <<lockFile, lockInit, alive>>
    /\ UNCHANGED <<queueVars, schedVars, shareVars, cycleVars, cmVars,
                   deltaVars, notToVars>>

\* The with-body has run and __exit__ begins; the operation returns.
Complete(p) ==
    /\ alive[p] /\ pc[p] = "acquired" /\ calling[p] # "none"
    /\ outcome' = [outcome EXCEPT ![p] = "returned"]
    /\ calling' = [calling EXCEPT ![p] = "none"]
    /\ IF lockFile.exists /\ ExitOwns(p, lockFile.text)
         THEN pc' = [pc EXCEPT ![p] = "exit_remove"]
         ELSE pc' = [pc EXCEPT ![p] = "idle"]
    /\ Forget(p)
    /\ UNCHANGED <<lockFile, lockInit, alive>>
    /\ UNCHANGED <<queueVars, schedVars, shareVars, cycleVars, cmVars,
                   deltaVars, notToVars>>

\* No call has been made.
InitCalls ==
    /\ calling = [p \in Procs |-> "none"]
    /\ outcome = [p \in Procs |-> "none"]

(* ------------------ cycle watcher: reading the flag files ------------- *)

\* Texts active_cycle.json may hold that are not a cycle record: nothing,
\* white space, text json.loads rejects, and a JSON value that is no object.
BadFlagTexts == {"", BlankText, "{bad", "[1]"}

\* Texts llm_status.txt may hold besides idle and busy; AbsentFlag: no file.
AbsentFlag == "<absent>"

OddStatusTexts == {AbsentFlag, "", BlankText, "error"}

\* active_cycle.json holding `text` instead of a record.
RawFlag(text) == [name |-> text, status |-> "unparsed", current_step |-> None]

\* json.loads(content) raises JSONDecodeError.
JSONDecodeError(content) == content = "{bad"

\* _read_flag_file(path, is_json=True): None (NoRecord here) for a missing
\* file, for content that is empty once stripped and for content that
\* json.loads rejects; else the value parsed.
_read_flag_file(file) ==
    IF file.status = "absent" THEN NoRecord
    ELSE IF file.status # "unparsed" THEN file
    ELSE IF strip(file.name) = "" THEN NoRecord
    ELSE IF JSONDecodeError(strip(file.name)) THEN NoRecord
    ELSE file

\* _read_flag_file(path): None for a missing file, else the stripped text.
_read_flag_text(file) == IF file = AbsentFlag THEN "<None>" ELSE strip(file)

\* A check that only holds the pass back while the status is busy.
is_not_busy(llm_status_) == llm_status_ # "busy"

\* `not active_cycle_data or active_cycle_data.get("status") != "running"`
\* is false: the pass goes on. On a JSON value that is no object .get raises
\* AttributeError, which the except of run() prints: the pass ends as well.
is_running(data) ==
    /\ data # NoRecord
    /\ data.status # "unparsed"
    /\ data.status = "running"

\* llm_status != "idle" is false.
is_idle(llm_status_) == llm_status_ = "idle"

\* 1. Check for an active cycle, from the text of the file.
FlagReadActive ==
    /\ wpc = "read_active"
    /\ seenActive' = active_cycle
    /\ seenStatus' = Unread
    /\ flagReads' = 1 - flagReads
    /\ IF is_running(_read_flag_file(active_cycle))
         THEN /\ active_cycle_data' = _read_flag_file(active_cycle)
              /\ wpc' = "read_status"
         ELSE UNCHANGED <<active_cycle_data, wpc>>
    /\ UNCHANGED <<active_cycle, llm_status, cycle_trigger, generating, tpc,
                   current_state, selected_cycle, injected, idleReports, observed,
                   llm_at_start, stopped_by_toggle, idle_since>>
    /\ UNCHANGED <<lockVars, localVars, queueVars, schedVars, shareVars, cmVars,
                   deltaVars, notFlagVars>>

\* 2. Check if the LLM is idle, from the text of the file; 3. look the
\* cycle up and decide.
FlagReadStatus ==
    /\ wpc = "read_status"
    /\ seenStatus' = llm_status
    /\ flagReads' = 1 - flagReads
    /\ IF ~is_idle(_read_flag_text(llm_status))
         THEN /\ wpc' = "read_active"
              /\ active_cycle_data' = NoRecord
              /\ UNCHANGED observed
         ELSE /\ wpc' = IF Resolve(active_cycle_data) = "stop"
                          THEN "write_stopped" ELSE "write_busy"
              /\ observed' = IF observed < MaxIdleReports
                                THEN observed + 1 ELSE observed
              /\ UNCHANGED active_cycle_data
    /\ UNCHANGED <<active_cycle, llm_status, cycle_trigger, generating, tpc,
                   current_state, selected_cycle, injected, idleReports,
                   llm_at_start, stopped_by_toggle, idle_since, seenActive>>
    /\ UNCHANGED <<lockVars, localVars, queueVars, schedVars, shareVars, cmVars,
                   deltaVars, notFlagVars>>

\* active_cycle.json is removed, or found cut short or overwritten: its
\* writers open it with 'w' and dump into it, with no temp file.
ScribbleActive(file) ==
    /\ active_cycle # file
    /\ active_cycle' = file
    /\ UNCHANGED <<llm_status, cycle_trigger, generating, wpc, active_cycle_data,
                   tpc, current_state, selected_cycle, injected, idleReports,
                   observed, llm_at_start, stopped_by_toggle, idle_since,
                   flagVars>>
    /\ UNCHANGED <<lockVars, localVars, queueVars, schedVars, shareVars, cmVars,
                   deltaVars, notFlagVars>>

\* The writer whose file was found cut short completes its json.dump: the
\* record of the running cycle is in the file again.
RestoreActive ==
    /\ active_cycle.status \in {"absent", "unparsed"}
    /\ active_cycle' = [name |-> "three", status |-> "running",
                        current_step |-> Len(injected)]
    /\ UNCHANGED <<llm_status, cycle_trigger, generating, wpc, active_cycle_data,
                   tpc, current_state, selected_cycle, injected, idleReports,
                   observed, llm_at_start, stopped_by_toggle, idle_since,
                   flagVars>>
    /\ UNCHANGED <<lockVars, localVars, queueVars, schedVars, shareVars, cmVars,
                   deltaVars, notFlagVars>>

\* llm_status.txt is removed or holds some other text.
ScribbleStatus(text) ==
    /\ llm_status # text
    /\ llm_status' = text
    /\ UNCHANGED <<active_cycle, cycle_trigger, generating, wpc, active_cycle_data,
                   tpc, current_state, selected_cycle, injected, idleReports,
                   observed, llm_at_start, stopped_by_toggle, idle_since,
                   flagVars>>
    /\ UNCHANGED <<lockVars, localVars, queueVars, schedVars, shareVars, cmVars,
                   deltaVars, notFlagVars>>

\* The watcher has not begun a pass.
InitFlags ==
    /\ seenActive = NoRecord
    /\ seenStatus = Unread
    /\ flagReads = 0

(* ----------------- DeltaManager.update_simple_delta ------------------- *)

\* update_simple_delta(trait_name, formatted_string), whole: the call of
\* set_section_value("simple_deltas", ...): _load_manifest, the entry set in
\* memory, _save_manifest.
UpdateSimpleDelta(p, trait_name, formatted_string) ==
    /\ dpc[p].at = "idle"
    /\ LET manifest_ == [_load_manifest(manifestFile) EXCEPT
                            !.simple_deltas =
                                set_item(@, trait_name, formatted_string)]
       IN /\ manifest' = [manifest EXCEPT ![p] = manifest_]
          /\ manifestFile' = OkFile(manifest_)
    /\ keysSet' = keysSet \cup {trait_name}
    /\ updates' = (IF Len(updates) = 2 THEN Tail(updates) ELSE updates)
                     \o <<[trait |-> trait_name, value |-> formatted_string]>>
    /\ EndStreak
    /\ UNCHANGED <<dpc, deltaFiles, deltasMade, appended>>
    /\ UNCHANGED <<lockVars, localVars, queueVars, schedVars, shareVars,
                   cycleVars, cmVars, notTailVars, notUsdVars>>

\* No update_simple_delta call has been made.
InitUsd == updates = << >>

(* ------------------ scheduler_watcher.py: a restart ------------------- *)

\* main() of a new scheduler watcher process reaches
\* `with SimpleFileLock(watcher_lock_path, timeout=0)`.
StartSchedulerWatcher(p) ==
    /\ Enter(p, 0)
    /\ foundStale' = [foundStale EXCEPT ![p] = StaleLockFile]
    /\ UNCHANGED <<localVars, queueVars, schedVars, shareVars, cycleVars,
                   cmVars, deltaVars, notTailVars, notSwVars>>

\* No scheduler watcher has been started.
InitSw == foundStale = [p \in Procs |-> FALSE]

(* ------------- the consumer's poller of cycle_trigger.txt ------------- *)

\* The variables of the flag files and their users that the poller and the
\* handler of its messages leave alone.
cycleRest == <<active_cycle, wpc, active_cycle_data, tpc, current_state,
               selected_cycle, injected, idleReports, observed, llm_at_start,
               stopped_by_toggle, idle_since>>

\* trigger_path.exists() and content = trigger_path.read_text().
PollRead ==
    /\ ppc = "poll"
    /\ cycle_trigger # NoTrigger
    /\ trigger_content' = cycle_trigger
    /\ ppc' = "unlink"
    /\ UNCHANGED <<stream_queue, handled>>
    /\ UNCHANGED <<cycle_trigger, llm_status, generating, cycleRest>>
    /\ UNCHANGED <<lockVars, localVars, queueVars, schedVars, shareVars, cmVars,
                   deltaVars, notTailVars, notPollVars>>

\* trigger_path.unlink(): the file goes, whatever it holds by now.
PollUnlink ==
    /\ ppc = "unlink"
    /\ cycle_trigger' = NoTrigger
    /\ ppc' = "put"
    /\ UNCHANGED <<trigger_content, stream_queue, handled>>
    /\ UNCHANGED <<llm_status, generating, cycleRest>>
    /\ UNCHANGED <<lockVars, localVars, queueVars, schedVars, shareVars, cmVars,
                   deltaVars, notTailVars, notPollVars>>

\* self.stream_queue.put(('inject_trigger', trigger_content))
PollPut ==
    /\ ppc = "put"
    /\ stream_queue' = Append(stream_queue, trigger_content)
    /\ ppc' = "poll"
    /\ trigger_content' = NoTrigger
    /\ UNCHANGED handled
    /\ UNCHANGED <<cycle_trigger, llm_status, generating, cycleRest>>
    /\ UNCHANGED <<lockVars, localVars, queueVars, schedVars, shareVars, cmVars,
                   deltaVars, notTailVars, notPollVars>>

\* process_queue takes an inject_trigger message: the prompt goes into the
\* input box and send_message runs, writing busy.
HandleInject ==
    /\ handled < Len(stream_queue)
    /\ ~generating
    /\ handled' = handled + 1
    /\ generating' = TRUE
    /\ llm_status' = "busy"
    /\ UNCHANGED <<ppc, trigger_content, stream_queue>>
    /\ UNCHANGED <<cycle_trigger, cycleRest>>
    /\ UNCHANGED <<lockVars, localVars, queueVars, schedVars, shareVars, cmVars,
                   deltaVars, notTailVars, notPollVars>>

\* The poller is waiting for a file and has put nothing.
InitPoll ==
    /\ ppc = "poll"
    /\ trigger_content = NoTrigger
    /\ stream_queue = << >>
    /\ handled = 0

(* ------------ verbatim watcher: one pass of run(), in steps ----------- *)

\* The word a branch of run() writes once its handler has returned.
written_back(word) ==
    IF word = "input_ready" THEN "waiting_for_response" ELSE "idle"

\* status = self.read_status() and the handler of the branch taken; the
\* write_status of the branch is still to come. An exception in the handler
\* skips it; shutdown leaves the loop.
ReadAndHandle ==
    /\ vrunning
    /\ vpc = "read"
    /\ vlast' = "poll"
    /\ CASE vstatus = "input_ready" ->
              LET r == handle_input(sessions, vm, vclock)
              IN /\ sessions' = r.sessions
                 /\ vm' = r.m
                 /\ vpairs' = IF r.m.block_number # vm.block_number THEN 0 ELSE vpairs
                 /\ vfound' = IF r.m.block_number # vm.block_number THEN 0 ELSE vfound
                 /\ vpc' = "write"
                 /\ status' = vstatus
                 /\ UNCHANGED <<vrunning, nextSid>>
         [] vstatus = "output_ready" ->
              LET r == handle_output(sessions, vm)
              IN /\ sessions' = r.sessions
                 /\ vm' = r.m
                 /\ vpairs' = IF r.m.message_count_in_block # vm.message_count_in_block
                                THEN vpairs + 1 ELSE vpairs
                 /\ vpc' = IF r.raised THEN "read" ELSE "write"
                 /\ status' = IF r.raised THEN "" ELSE vstatus
                 /\ UNCHANGED <<vrunning, nextSid, vfound>>
         [] vstatus = "shutdown" ->
              /\ sessions' = end_session(sessions, vm, vclock)
              /\ vrunning' = FALSE
              /\ UNCHANGED <<vm, nextSid, vpairs, vfound, vpc, status>>
         [] vstatus = "force_new_session" ->
              LET r == start_new_session(end_session(sessions, vm, vclock),
                                         vm, TRUE, vclock, nextSid)
              IN /\ sessions' = r.sessions
                 /\ vm' = r.m
                 /\ nextSid' = NextSid(r.sessions, nextSid)
                 /\ vpairs' = 0
                 /\ vfound' = 0
                 /\ vpc' = "write"
                 /\ status' = vstatus
                 /\ UNCHANGED vrunning
         [] OTHER ->
              UNCHANGED <<sessions, vm, vrunning, nextSid, vpairs, vfound, vpc, status>>
    /\ UNCHANGED <<vstatus, vclock, vinputs, vkills>>
    /\ UNCHANGED notVbStepVars

\* The write_status that ends the branch: the file is opened with 'w',
\* whatever it holds.
WriteBack ==
    /\ vrunning
    /\ vpc = "write"
    /\ vstatus' = written_back(status)
    /\ vpc' = "read"
    /\ status' = ""
    /\ vlast' = "poll"
    /\ UNCHANGED <<sessions, vm, vrunning, vclock, nextSid, vinputs, vpairs, vfound, vkills>>
    /\ UNCHANGED notVbStepVars

\* The watcher is at the top of its loop.
InitStep ==
    /\ vpc = "read"
    /\ status = ""

(* ------------------ the queue calls and what they return ------------- *)

\* add_job as the consumer calls it, with the call recorded: a name that
\* is not in the catalog returns before the lock and the file are touched.
AddJobCall(name, priority, when) ==
    /\ ~lockFile.exists
    /\ begun < MaxJobs
    /\ IF ~in_catalog(name)
         THEN UNCHANGED <<queueFile, begun, added>>
         ELSE LET d == JobDict(name, priority, when, begun + 1)
              IN /\ queueFile' = append(queueFile, d)
                 /\ begun' = begun + 1
                 /\ added' = Append(added, d)
    /\ qcall' = [op |-> "add_job", name |-> name, result |-> "None"]
    /\ UNCHANGED <<returned, pending>>
    /\ UNCHANGED <<lockVars, localVars, schedVars, shareVars, cycleVars, cmVars,
                   deltaVars, notTailVars, notQcVars>>

\* get_next_job, with the call recorded: None for an empty queue, before
\* anything is written, and for an entry whose job has no prompt, after the
\* entry has been taken.
GetNextJobCall ==
    /\ ~lockFile.exists
    /\ IF queueFile = << >>
         THEN /\ UNCHANGED <<queueFile, returned>>
              /\ qcall' = [op |-> "get_next_job", name |-> "", result |-> "None"]
         ELSE /\ queueFile' = pop(queueFile).rest
              /\ IF get_job_instructions_prompt(pop(queueFile).job.name) = "None"
                   THEN /\ UNCHANGED returned
                        /\ qcall' = [op |-> "get_next_job", name |-> "",
                                     result |-> "None"]
                   ELSE /\ returned' = Append(returned, Job(pop(queueFile).job))
                        /\ qcall' = [op |-> "get_next_job", name |-> "",
                                     result |-> "Job"]
    /\ UNCHANGED <<begun, added, pending>>
    /\ UNCHANGED <<lockVars, localVars, schedVars, shareVars, cycleVars, cmVars,
                   deltaVars, notTailVars, notQcVars>>

\* No call yet.
InitQc == qcall = [op |-> "none", name |-> "", result |-> "None"]

\* The last sections, before anything has happened in them.
InitTail ==
    /\ InitUsd
    /\ InitSw
    /\ InitPoll
    /\ InitStep
    /\ InitQc

(* --------------------------- specifications --------------------------- *)

InitLock ==
    /\ lockInit \in {"absent", GarbageText, BlankText}
    /\ lockFile = IF lockInit = "absent" THEN NoFile
                  ELSE [exists |-> TRUE, text |-> lockInit, creator |-> 0]
    /\ alive = [p \in Procs |-> TRUE]
    /\ pc = [p \in Procs |-> "idle"]
    /\ timeout = [p \in Procs |-> 0]
    /\ elapsed = [p \in Procs |-> 0]
    /\ pid_str = [p \in Procs |-> Unread]
    /\ op = [p \in Procs |-> "none"]
    /\ queue_data = [p \in Procs |-> << >>]
    /\ new_job = [p \in Procs |-> NoJob]

\* No lock file: nobody is at the lock.
InitNoLock ==
    /\ InitLock
    /\ lockInit = "absent"

InitSched ==
    /\ schedulesFile = << >>
    /\ issued = 0
    /\ clock = 0
    /\ due_schedules = << >>
    /\ lastCall = "none"
    /\ got = << >>
    /\ stored = {}
    /\ deleted = {}

\* Processes that use one lock path, with empty with-bodies.
\* The later sections, before anything has happened in them.
InitMore ==
    /\ InitCrash
    /\ InitDc
    /\ InitVb
    /\ InitEp
    /\ InitCalls
    /\ InitFlags
    /\ InitTail

Init == InitLock /\ InitQueue /\ InitSched /\ InitCycle /\ InitCycles
            /\ InitDelta /\ InitMore

\* The same, begun without a lock file.
InitClean == InitNoLock /\ InitQueue /\ InitSched /\ InitCycle /\ InitCycles
            /\ InitDelta /\ InitMore

\* No lock file, and a cycle just started.
InitRun == InitNoLock /\ InitQueue /\ InitSched /\ InitCycleRun /\ InitCycles
            /\ InitDelta /\ InitMore

Next ==
    \/ \E p \in Procs, t \in Timeouts : Acquire(p, t)
    \/ \E p \in Procs : EnterStep(p)
    \/ \E p \in Procs : CatchTimeout(p)
    \/ \E p \in Procs : ExitRead(p)
    \/ \E p \in Procs : ExitRemove(p)
    \/ \E p \in Procs : Crash(p)

Spec == Init /\ [][Next]_vars

\* Every running process goes on with the __enter__ it has begun and with
\* the os.remove of an __exit__ it has begun; nothing obliges a process to
\* call the lock, to leave its with-body, or to crash.
Fairness ==
    \A p \in Procs : WF_vars(EnterStep(p)) /\ WF_vars(ExitRemove(p))

SpecFair == Spec /\ Fairness

\* scheduler_watcher.py main(): every process is a watcher that enters
\* scheduler_watcher.lock with timeout=0 and polls while it holds the lock.
\* A watcher leaves the loop by an interrupt (its __exit__ runs) or by dying.
NextWatcher ==
    \/ \E p \in Procs : Acquire(p, 0)
    \/ \E p \in Procs : EnterStep(p)
    \/ \E p \in Procs : CatchTimeout(p)
    \/ \E p \in Procs : ExitRead(p)
    \/ \E p \in Procs : ExitRemove(p)
    \/ \E p \in Procs : Crash(p)

SpecWatcher == Init /\ [][NextWatcher]_vars

\* Scheduler watchers started, dying in the loop, and started again.
NextRestart ==
    \/ \E p \in Procs : StartSchedulerWatcher(p)
    \/ \E p \in Procs : EnterStep(p)
    \/ \E p \in Procs : CatchTimeout(p)
    \/ \E p \in Procs : ExitRead(p)
    \/ \E p \in Procs : ExitRemove(p)
    \/ \E p \in Procs : Crash(p)

SpecRestart == InitClean /\ [][NextRestart]_vars

\* One AutomationController, alone at job_queue.json.
NextQueue ==
    \/ \E name \in JobNames, priority \in Priorities, when \in Whens :
          add_job(name, priority, when)
    \/ get_next_job
    \/ has_pending_jobs

SpecQueue == InitClean /\ [][NextQueue]_vars

\* The same calls, each recorded.
NextQueueCalls ==
    \/ \E name \in JobNames, priority \in Priorities, when \in Whens :
          AddJobCall(name, priority, when)
    \/ GetNextJobCall

SpecQueueCalls == InitClean /\ [][NextQueueCalls]_vars

\* The consumer and the scheduler watcher, each with its own
\* AutomationController, at the same job_queue.json and its lock.
NextQueueShared ==
    \/ \E p \in Procs, name \in SharedJobNames : BeginAddJob(p, name)
    \/ \E p \in Procs : BeginGetNextJob(p)
    \/ \E p \in Procs : EnterStep(p)
    \/ \E p \in Procs : ReadQueue(p)
    \/ \E p \in Procs : WriteQueue(p)
    \/ \E p \in Procs : CatchTimeout(p)
    \/ \E p \in Procs : ExitRead(p)
    \/ \E p \in Procs : ExitRemove(p)
    \/ \E p \in Procs : Crash(p)

SpecQueueShared == InitClean /\ [][NextQueueShared]_vars

\* One SchedulerManager, alone at schedules.json, and the clock.
NextSched ==
    \/ \E job_name \in ScheduleJobNames, datetime \in Datetimes :
          add_schedule(job_name, datetime)
    \/ \E schedule_id \in 1..MaxSchedules : delete_schedule(schedule_id)
    \/ get_and_remove_due_schedules
    \/ Tick

SpecSched == InitClean /\ [][NextSched]_vars

\* Two processes, each with its own SchedulerManager, at the same
\* schedules.json and its lock; the clock stands.
NextSchedShared ==
    \/ \E p \in Procs, datetime \in SharedDatetimes : BeginAddSchedule(p, datetime)
    \/ \E p \in Procs, schedule_id \in SharedDeleteIds :
          BeginDeleteSchedule(p, schedule_id)
    \/ \E p \in Procs : BeginGetDue(p)
    \/ \E p \in Procs : EnterStep(p)
    \/ \E p \in Procs : ReadSchedules(p)
    \/ \E p \in Procs : WriteSchedules(p)
    \/ \E p \in Procs : CatchTimeout(p)
    \/ \E p \in Procs : ExitRead(p)
    \/ \E p \in Procs : ExitRemove(p)
    \/ \E p \in Procs : Crash(p)

SpecSchedShared == InitClean /\ [][NextSchedShared]_vars

\* The consumer schedules jobs and takes them from the queue; the scheduler
\* watcher polls.
NextPoll ==
    \/ \E job_name \in ScheduleJobNames, datetime \in Datetimes :
          add_schedule(job_name, datetime)
    \/ Tick
    \/ poll
    \/ get_next_job

SpecPoll == InitClean /\ [][NextPoll]_vars

\* The same, with edits of schedules.json by hand.
NextMalformed ==
    \/ \E datetime \in Datetimes : add_schedule("summary_job", datetime)
    \/ EditSchedules("summary_job")
    \/ Tick
    \/ poll
    \/ get_next_job

SpecMalformed == InitClean /\ [][NextMalformed]_vars

\* One run of the cycle "three": the watcher and the consumer, with nobody
\* at the Start/Stop button.
NextCycleRun ==
    \/ WatcherStep
    \/ inject_trigger
    \/ send_message
    \/ enable_send

SpecCycleRun ==
    InitRun /\ [][NextCycleRun]_vars

\* One run of the cycle "three": the watcher, the consumer's poller thread,
\* its message loop, and the user's own messages.
NextPoller ==
    \/ WatcherStep
    \/ PollRead
    \/ PollUnlink
    \/ PollPut
    \/ HandleInject
    \/ send_message
    \/ enable_send

SpecPoller == InitRun /\ [][NextPoller]_vars

\* The watcher, the consumer and its user: messages of the user's own and
\* presses of the cycle's Start/Stop button at any time.
NextCycle ==
    \/ WatcherStep
    \/ inject_trigger
    \/ send_message
    \/ enable_send
    \/ \E selected \in CycleNames :
          ToggleRead(selected)
    \/ ToggleWrite

SpecCycle == InitClean /\ [][NextCycle]_vars

\* The consumer's CycleManager, alone at cycles.json.
NextCycles ==
    \/ \E name \in ManagedCycles : CreateCycle(1, name)
    \/ \E name \in ManagedCycles : DeleteCycle(1, name)
    \/ \E name \in ManagedCycles, t \in TriggerNames, prompt \in TriggerPrompts :
          AddTrigger(1, name, t, prompt)
    \/ \E name \in ManagedCycles, t \in TriggerNames : DeleteTrigger(1, name, t)
    \/ \E name \in ManagedCycles : ReorderTriggers(1, name)

SpecCycles == InitClean /\ [][NextCycles]_vars

\* Two CycleManagers in two processes, each editing a cycle of its own.
NextCyclesShared ==
    \/ \E p \in Procs : CreateCycle(p, OwnCycle(p))
    \/ \E p \in Procs : DeleteCycle(p, OwnCycle(p))
    \/ \E p \in Procs, t \in TriggerNames, prompt \in TriggerPrompts :
          AddTrigger(p, OwnCycle(p), t, prompt)
    \/ \E p \in Procs, t \in TriggerNames : DeleteTrigger(p, OwnCycle(p), t)

SpecCyclesShared == InitClean /\ [][NextCyclesShared]_vars

\* The watcher and the consumer have started on a cycles.json with one
\* cycle; the consumer then defines and edits cycles and starts them.
InitLate == InitNoLock /\ InitQueue /\ InitSched /\ InitCycle /\ InitLoaded
            /\ InitDelta /\ InitMore

NextLate ==
    \/ CreateCycle(1, "ca")
    \/ AddTrigger(1, "ca", "t0", "p")
    \/ AddTrigger(1, "cb", "t1", "q")
    \/ ReorderTriggers(1, "cb")
    \/ ToggleManaged
    \/ ToggleWrite
    \/ WatcherStep
    \/ inject_trigger
    \/ enable_send

SpecLate == InitLate /\ [][NextLate]_vars

\* The consumer's DeltaManager, alone in the deltas directory, and what can
\* happen to its files from outside.
NextDelta ==
    \/ CreateDelta(1)
    \/ \E key \in SimpleKeys, value \in SimpleValues : BeginSetSectionValue(1, key, value)
    \/ BeginAppendToSection(1, "n")
    \/ SaveManifest(1)
    \/ GetDeltaContent(1)
    \/ DamageManifest
    \/ RemoveDeltaFile

SpecDelta == InitClean /\ [][NextDelta]_vars

\* Two DeltaManagers on the same deltas directory.
NextDeltaShared ==
    \/ \E p \in Procs : CreateDelta(p)
    \/ \E p \in Procs, key \in SimpleKeys : BeginSetSectionValue(p, key, "v1")
    \/ \E p \in Procs : BeginAppendToSection(p, "n")
    \/ \E p \in Procs : SaveManifest(p)

SpecDeltaShared == InitClean /\ [][NextDeltaShared]_vars

\* Processes adding jobs to one queue, _write_queue_unsafe taken step by
\* step, and kills in the middle of it.
NextQueueCrash ==
    \/ \E p \in Procs, name \in SharedJobNames : BeginAddJob(p, name)
    \/ \E p \in Procs : EnterStep(p)
    \/ \E p \in Procs : ReadQueue(p)
    \/ \E p \in Procs : OpenTemp(p)
    \/ \E p \in Procs : DumpTemp(p)
    \/ \E p \in Procs : MoveTemp(p)
    \/ \E p \in Procs : CatchTimeout(p)
    \/ \E p \in Procs : ExitRead(p)
    \/ \E p \in Procs : ExitRemove(p)
    \/ \E p \in Procs : KillWriter(p)

SpecQueueCrash == InitClean /\ [][NextQueueCrash]_vars

\* The program on a new deltas directory.
InitFresh ==
    /\ InitNoLock /\ InitQueue /\ InitSched /\ InitCycle /\ InitCycles
    /\ InitDeltaFresh
    /\ InitCrash
    /\ InitDcFresh
    /\ InitVb
    /\ InitEp
    /\ InitCalls
    /\ InitFlags
    /\ InitTail

\* DeltaManagers being built, creating deltas, and killed on the way.
NextDeltaCrash ==
    \/ \E p \in Procs : LoadRead(p)
    \/ \E p \in Procs : LoadDone(p)
    \/ \E p \in Procs : HealOpen(p)
    \/ \E p \in Procs : HealDump(p)
    \/ \E p \in Procs : SaveTemp(p)
    \/ \E p \in Procs : ReplaceManifest(p)
    \/ \E p \in Procs : KillDelta(p)
    \/ \E p \in Procs : RestartDelta(p)

SpecDeltaCrash == InitFresh /\ [][NextDeltaCrash]_vars

\* The verbatim watcher, the consumer's signals, the clock, and kills.
NextVerbatim ==
    \/ StartWatcher
    \/ PollStatus
    \/ \E word \in SignalWords : Signal(word)
    \/ \E word \in {"<absent>", "junk"} : Scribble(word)
    \/ KillWatcher
    \/ VTick

SpecVerbatim == InitClean /\ [][NextVerbatim]_vars

\* The verbatim watcher with its pass taken in two steps, and the
\* consumer's signals.
NextVerbatimSteps ==
    \/ StartWatcher
    \/ ReadAndHandle
    \/ WriteBack
    \/ \E word \in SignalWords : Signal(word)
    \/ VTick

SpecVerbatimSteps == InitClean /\ [][NextVerbatimSteps]_vars

\* The verbatim watcher through a long conversation, with a kill.
NextVerbatimBlocks ==
    \/ StartWatcher
    \/ PollStatus
    \/ Converse
    \/ KillWatcher

SpecVerbatimBlocks == InitClean /\ [][NextVerbatimBlocks]_vars

\* One entry is about to be written, with any of the argument texts.
InitEntry ==
    /\ InitNoLock /\ InitQueue /\ InitSched /\ InitCycle /\ InitCycles
    /\ InitDelta
    /\ InitCrash
    /\ InitDc
    /\ InitVb
    /\ InitEpArgs
    /\ InitCalls
    /\ InitFlags
    /\ InitTail

\* An entry is written and read back.
NextEntry ==
    \/ CreateChatEntry
    \/ ParseEntryFile

SpecEntry == InitEntry /\ [][NextEntry]_vars

\* Processes calling the public operations against one lock path.
NextCalls ==
    \/ \E p \in Procs, o \in LockingOps : BeginCall(p, o)
    \/ \E p \in Procs : EnterStep(p)
    \/ \E p \in Procs : Unwind(p)
    \/ \E p \in Procs : Complete(p)
    \/ \E p \in Procs : ExitRemove(p)
    \/ \E p \in Procs : Crash(p)

SpecCalls == InitClean /\ [][NextCalls]_vars

\* The watcher reading the flag files as text, the consumer, and flag files
\* that go missing or hold something else.
NextFlags ==
    \/ FlagReadActive
    \/ FlagReadStatus
    \/ WriteStopped
    \/ WriteBusy
    \/ WriteTrigger
    \/ WriteStep
    \/ inject_trigger
    \/ enable_send
    \/ \E text \in BadFlagTexts : ScribbleActive(RawFlag(text))
    \/ ScribbleActive(NoRecord)
    \/ \E text \in OddStatusTexts : ScribbleStatus(text)
    \/ RestoreActive

SpecFlags == InitRun /\ [][NextFlags]_vars

\* One DeltaManager: simple deltas set and set again, deltas created, delta
\* files removed, and the block rendered.
NextSimple ==
    \/ \E trait_name \in SimpleKeys, formatted_string \in SimpleValues :
          UpdateSimpleDelta(1, trait_name, formatted_string)
    \/ CreateDelta(1)
    \/ GetDeltaContent(1)
    \/ RemoveDeltaFile

SpecSimple == InitClean /\ [][NextSimple]_vars

(* ------------------------- SimpleFileLock claims ---------------------- *)

\* p is inside its with-body: __enter__ has returned, __exit__ not begun.
Holding(p) == pc[p] = "acquired"

\* p is inside the retry loop of __enter__.
Waiting(p) ==
    pc[p] \in {"try_create", "check_timeout", "read_pid", "remove_empty",
               "remove_stale", "sleep"}

\* No process has crashed and the run began without a lock file.
NoCrashCleanStart == lockInit = "absent" /\ \A p \in Procs : alive[p]

\* The lock file records the PID of a process that is not running.
StaleLock == StaleLockFile

\* The lock file records the PID of a running process.
LiveLock ==
    /\ lockFile.exists
    /\ IsInt(strip(lockFile.text))
    /\ _is_pid_running(int(strip(lockFile.text)))

\* C1: with no crash and no lock file at the start, at most one process is
\* between the return of __enter__ and its __exit__ at any instant.
C1_MutualExclusion ==
    NoCrashCleanStart => Cardinality({p \in Procs : Holding(p)}) <= 1

\* C2: __enter__ never raises TimeoutError in front of a stale lock file
\* (one that records the PID of a process that is not alive), whatever the
\* timeout: it removes the file and acquires instead.
C2_StaleLockRecovered ==
    [][\A p \in Procs :
         (pc[p] = "check_timeout" /\ pc'[p] = "timed_out") => ~StaleLock]_vars

\* C3: in no interleaving does the os.remove of __exit__ delete a lock file
\* that, at that moment, records another live process as its owner.
C3_ReleaseByOwnerOnly ==
    [][\A p \in Procs :
         (pc[p] = "exit_remove" /\ pc'[p] = "idle" /\ LiveLock)
            => ExitOwns(p, lockFile.text)]_vars

\* C4: a waiter in front of a lock file that a live process holds without
\* interruption does not wait forever; when it gives up, it does so by
\* TimeoutError, only after more than its timeout has elapsed, and without
\* touching the lock file.
C4_BoundedAcquisition ==
    /\ \A p \in Procs :
          (Waiting(p) /\ LiveLock) ~> (~Waiting(p) \/ ~LiveLock)
    /\ [][\A p \in Procs :
            (Waiting(p) /\ pc'[p] = "timed_out")
               => /\ pc[p] = "check_timeout"
                  /\ elapsed'[p] > timeout[p]
                  /\ lockFile' = lockFile]_vars
    /\ [][\A p \in Procs :
            (Waiting(p) /\ LiveLock /\ LiveLock' /\ ~Waiting(p)' /\ alive'[p])
               => pc'[p] = "timed_out"]_vars

\* A process has given up with TimeoutError in front of a lock that a live
\* process still holds.
C4_Witness ==
    \E p \in Procs : \E q \in Procs \ {p} :
        /\ pc[p] = "timed_out" /\ timeout[p] = DefaultTimeout
        /\ Holding(q) /\ lockFile.exists /\ lockFile.text = str(q)

\* C5: a release hands the lock over. When __exit__ of a process ends, the
\* lock file no longer records that process; a waiter whose retry finds no
\* lock file creates it and goes on to hold the lock, whatever time it has
\* spent waiting; and a waiter is never left in its loop in front of an
\* absent lock file.
C5_Handoff ==
    /\ [][\A p \in Procs :
            (pc[p] \in {"acquired", "exit_remove"} /\ pc'[p] = "idle")
               => ~(lockFile'.exists /\ lockFile'.text = str(p))]_vars
    /\ [][\A p \in Procs :
            (pc[p] = "try_create" /\ pc'[p] # "try_create" /\ alive'[p]
                /\ ~lockFile.exists)
               => /\ pc'[p] = "write_pid"
                  /\ lockFile'.exists /\ lockFile'.creator = p]_vars
    /\ [][\A p \in Procs :
            (pc[p] = "write_pid" /\ pc'[p] # "write_pid" /\ alive'[p])
               => Holding(p)']_vars
    /\ \A p \in Procs :
          (Waiting(p) /\ ~lockFile.exists)
             ~> (~Waiting(p) \/ lockFile.exists)

\* A process that had to wait (it slept at least once) holds the lock that
\* the process it waited for has released.
C5_Witness ==
    \E p \in Procs : \E q \in Procs \ {p} :
        /\ Holding(p) /\ elapsed[p] > 0 /\ pid_str[p] = str(q)
        /\ pc[q] = "idle" /\ alive[q]
        /\ lockFile.exists /\ lockFile.text = str(p)

\* C6 as stated: a lock file whose text is empty or does not parse as a PID
\* is treated as stale, i.e. __enter__ goes on to delete it after reading it.
C6_UnreadableIsStale ==
    [][\A p \in Procs :
         (pc[p] = "read_pid" /\ pc'[p] # "read_pid" /\ alive'[p]
             /\ lockFile.exists /\ ~IsInt(strip(lockFile.text)))
            => pc'[p] = "remove_empty"]_vars

\* C6 as amended: empty (or blank) text is treated as stale, the file is
\* deleted and the create retried without a sleep; text that is not empty
\* and does not parse as a PID is left in place and the acquirer sleeps.
C6_EmptyIsStaleGarbageWaits ==
    /\ [][\A p \in Procs :
            (pc[p] = "read_pid" /\ pc'[p] # "read_pid" /\ alive'[p]
                /\ lockFile.exists)
               => /\ strip(lockFile.text) = "" => pc'[p] = "remove_empty"
                  /\ (strip(lockFile.text) # "" /\ ~IsInt(strip(lockFile.text)))
                        => (pc'[p] = "sleep" /\ lockFile' = lockFile)]_vars
    /\ [][\A p \in Procs :
            (pc[p] = "remove_empty" /\ pc'[p] # "remove_empty" /\ alive'[p]
                /\ lockFile.exists)
               => /\ ~lockFile'.exists
                  /\ pc'[p] = "try_create"
                  /\ elapsed'[p] = elapsed[p]]_vars

\* An acquirer has read an empty lock file, deleted it and is back at the
\* exclusive create, never having slept.
C6_Witness ==
    \E p \in Procs :
        /\ pc[p] = "try_create" /\ pid_str[p] = "" /\ elapsed[p] = 0
        /\ ~lockFile.exists

(* ------------------------- scheduler watcher claim -------------------- *)

\* C7: at most one scheduler watcher is inside the polling loop (the body of
\* `with SimpleFileLock(watcher_lock_path, timeout=0)`) at any instant.
C7_SingleWatcher == Cardinality({p \in Procs : Holding(p)}) <= 1

(* ------------------------------ queue claims -------------------------- *)

\* C8: the Jobs get_next_job has returned are the first entries add_job
\* wrote, in the order of the add_job calls and with their own priority and
\* when; the entries not yet returned are in the file, in that order.
C8_QueueFIFO ==
    /\ Len(returned) <= Len(added)
    /\ \A i \in 1..Len(returned) : returned[i] = Job(added[i])
    /\ queueFile = SubSeq(added, Len(returned) + 1, Len(added))

\* Two jobs have come back in insertion order although the second has the
\* smaller priority number and an earlier `when`, with a has_pending_jobs
\* read in between and a third job still queued.
C8_Witness ==
    /\ Len(returned) = 2 /\ Len(queueFile) = 1 /\ pending
    /\ returned[1].priority = 100 /\ returned[2].priority = 1
    /\ returned[1].when = "later" /\ returned[2].when = "now"
    /\ returned[1].uid = 1 /\ returned[2].uid = 2

\* The uids of the entries of a list.
Uids(list) == {list[i].uid : i \in DOMAIN list}

\* C9: once every call has returned (and no process has died), every entry
\* written by an add_job call has been returned by exactly one get_next_job
\* call or is still in the file, exactly once.
C9_ExactlyOnce ==
    (\A p \in Procs : alive[p] /\ pc[p] = "idle")
       => /\ Len(returned) + Len(queueFile) = Len(added)
          /\ Uids(returned) \cup Uids(queueFile) = Uids(added)

(* ---------------------------- scheduler claims ------------------------ *)

\* C10: a call of get_and_remove_due_schedules at instant now returns exactly
\* the entries of the store with scheduled_datetime <= now and leaves exactly
\* the entries with scheduled_datetime > now, both in their original order.
C10_SchedulerPartition ==
    [][lastCall' = "get_and_remove_due_schedules"
         => LET AtOrBefore(s) == s.scheduled_datetime_iso * TicksPerSec <= clock
                After(s) == s.scheduled_datetime_iso * TicksPerSec > clock
            IN /\ due_schedules' = SelectSeq(schedulesFile, AtOrBefore)
               /\ schedulesFile' = SelectSeq(schedulesFile, After)]_vars

\* A call has returned two due schedules, one of them scheduled at the very
\* instant of the call, and has left a later one in the store.
C10_Witness ==
    /\ lastCall = "get_and_remove_due_schedules"
    /\ Len(due_schedules) = 2 /\ Len(schedulesFile) = 1
    /\ \E i \in 1..2 : due_schedules[i].scheduled_datetime_iso * TicksPerSec = clock
    /\ schedulesFile[1].id = 2


\* C11: between processes that share schedules.json, no schedule entry is
\* returned by get_and_remove_due_schedules twice (to two callers), and once
\* every call has returned (and no process has died) every entry an
\* add_schedule call wrote is in the store, has been returned, or was deleted.
C11_LinearizableDuePop ==
    /\ \A i, j \in DOMAIN got : i # j => got[i] # got[j]
    /\ (\A p \in Procs : alive[p] /\ pc[p] = "idle")
          => stored \subseteq (Ids(schedulesFile) \cup Ids([i \in DOMAIN got |-> [id |-> got[i]]])
                                 \cup deleted)

\* C12: a poll of the scheduler watcher appends to the tail of job_queue.json
\* one entry for every schedule it removed from schedules.json as due, with
\* that schedule's job_name, in the order of removal.
C12_DueReachesQueue ==
    [][lastCall' = "poll"
         => /\ Len(queueFile') = Len(queueFile) + Len(due_schedules')
            /\ \A i \in DOMAIN due_schedules' :
                  queueFile'[Len(queueFile) + i].name = due_schedules'[i].job_name]_vars

(* ------------------------------ cycle claims -------------------------- *)

\* The prompts of the cycle "three", in the order of its triggers.
Prompts == <<"p0", "p1", "p2">>

\* The idle states of llm_status the watcher can have seen since the start:
\* the one at the start, if the consumer was idle then, and one per report.
IdleStates == idleReports + (IF llm_at_start = "idle" THEN 1 ELSE 0)

\* C13 as stated: once the consumer has reported idle three times since the
\* start of [t0, t1, t2] and the watcher has finished a pass for every idle
\* state there was, exactly t0, t1, t2 have been written to
\* cycle_trigger.txt, in that order, and the record is stopped.
C13_ThreeIdleReports ==
    (idleReports = 3 /\ observed = IdleStates /\ wpc = "read_active")
       => (injected = Prompts /\ active_cycle.status = "stopped")

\* C13 as amended: the watcher writes one prompt per pass in which it finds
\* the LLM idle, t0, t1, t2 in that order; after the third such pass the
\* record is still running, at current_step 3; the fourth such pass writes
\* status stopped and injects nothing, and nothing is injected after it.
\* The watcher finds the LLM idle at most once per idle report, and once
\* more if llm_status was idle when the cycle was started.
C13_OnePromptPerIdlePass ==
    /\ [](/\ Len(injected) <= 3
          /\ injected = SubSeq(Prompts, 1, Len(injected))
          /\ observed <= IdleStates)
    /\ [](wpc = "read_active"
            => /\ Len(injected) = (IF observed < 3 THEN observed ELSE 3)
               /\ (active_cycle.status = "stopped") = (observed = 4)
               /\ active_cycle.status = "running"
                     => active_cycle.current_step = Len(injected))
    /\ [][active_cycle.status = "stopped"
            => (injected' = injected /\ active_cycle' = active_cycle)]_vars

\* The cycle was started while the consumer was generating; three idle
\* reports have injected t0, t1, t2 and the fourth has stopped the record.
C13_Witness ==
    /\ llm_at_start = "busy" /\ idleReports = 4 /\ observed = 4
    /\ injected = Prompts /\ active_cycle.status = "stopped"
    /\ active_cycle.current_step = 3

\* The watcher writes a prompt to cycle_trigger.txt in this step.
Injects == wpc = "write_trigger" /\ wpc' = "write_step"

\* C14: from the moment toggle_cycle has written status stopped until it
\* writes a new running record, the record's status is stopped and the
\* watcher writes no prompt, whatever the watcher was doing at that moment.
C14_StoppedIsTerminal ==
    [][(stopped_by_toggle /\ stopped_by_toggle')
          => (active_cycle'.status = "stopped" /\ ~Injects)]_vars

\* C15: whenever the watcher writes a prompt to cycle_trigger.txt, the
\* consumer has written idle to llm_status.txt since the previous prompt was
\* written there.
C15_IdleBetweenInjections ==
    [][Injects => idle_since]_vars

\* The record the watcher read names a cycle it does not know, or one
\* without triggers, or its current_step is at or past the end of them.
Terminates(data) ==
    \/ data.name \notin DOMAIN watcher_cycles
    \/ watcher_cycles[data.name].triggers = << >>
    \/ data.current_step >= Len(watcher_cycles[data.name].triggers)

\* C16: a pass that has read a running record and finds the LLM idle, for a
\* cycle that is unknown, has no triggers or is at its end, goes on to write
\* the record back with status stopped (name and current_step as read); it
\* writes neither cycle_trigger.txt nor llm_status.txt.
C16_Termination ==
    /\ [][(wpc = "read_status" /\ wpc' # wpc /\ llm_status = "idle"
             /\ active_cycle_data.status = "running"
             /\ Terminates(active_cycle_data))
            => /\ wpc' = "write_stopped"
               /\ cycle_trigger' = cycle_trigger
               /\ llm_status' = llm_status
               /\ active_cycle' = active_cycle]_vars
    /\ [][(wpc = "write_stopped" /\ wpc' # wpc)
            => /\ active_cycle' = [name |-> active_cycle_data.name,
                                   status |-> "stopped",
                                   current_step |-> active_cycle_data.current_step]
               /\ cycle_trigger' = cycle_trigger
               /\ llm_status' = llm_status
               /\ injected' = injected
               /\ wpc' = "read_active"]_vars

\* The watcher has stopped a cycle it does not know, at step 0, with the
\* consumer idle and nothing injected.
C16_Witness ==
    /\ active_cycle = [name |-> "unknown", status |-> "stopped", current_step |-> 0]
    /\ llm_status = "idle" /\ ~generating
    /\ injected = << >> /\ cycle_trigger = NoTrigger
    /\ wpc = "read_active"

(* -------------------------- CycleManager claims ----------------------- *)

\* No two triggers of the list have the same name.
UniqueNames(triggers) ==
    \A i, j \in DOMAIN triggers : triggers[i].name = triggers[j].name => i = j

\* C17: in every cycle of the manager and of cycles.json no two triggers have
\* the same name; and an add_trigger_to_cycle call that names a trigger the
\* cycle already has changes that trigger's prompt and nothing else: the
\* list keeps its length, its order and its other prompts.
C17_TriggerNamesUnique ==
    /\ [](\A c \in ManagedCycles :
             /\ UniqueNames(cycles[1][c].triggers)
             /\ UniqueNames(cyclesFile[c].triggers))
    /\ [][cmCall'.op = "add_trigger_to_cycle"
            => LET c == cmCall'.cycle
                   old == cycles[1][c].triggers
                   new == cycles'[1][c].triggers
               IN (\E i \in DOMAIN old : old[i].name = cmCall'.name)
                     => /\ Len(new) = Len(old)
                        /\ \A i \in DOMAIN old :
                              /\ new[i].name = old[i].name
                              /\ new[i].prompt = IF old[i].name = cmCall'.name
                                                   THEN cmCall'.prompt
                                                   ELSE old[i].prompt
                        /\ cyclesFile' = cycles'[1]]_vars

\* After adds, a delete and a reorder, the first trigger of a three-trigger
\* cycle has just had its prompt replaced by an add of the same name.
C17_Witness ==
    /\ cmCall = [op |-> "add_trigger_to_cycle", cycle |-> "ca",
                 name |-> "t2", prompt |-> "q"]
    /\ cycles[1]["ca"].triggers = << [name |-> "t2", prompt |-> "q"],
                                     [name |-> "t0", prompt |-> "p"],
                                     [name |-> "t1", prompt |-> "p"] >>
    /\ cyclesFile = cycles[1]

\* C18: with two CycleManagers editing different cycles, cycles.json holds
\* each manager's cycle as that manager's last completed call left it.
C18_BothEffectsInFile ==
    \A p \in Procs : cyclesFile[OwnCycle(p)] = cycles[p][OwnCycle(p)]
(* ------------------------- DeltaManager claims ------------------------ *)

\* The paths listed in a manifest.
Listed(manifest_) == {manifest_.deltas[i] : i \in DOMAIN manifest_.deltas}

\* The keys of the simple deltas of a manifest.
SimpleKeysOf(manifest_) ==
    {manifest_.simple_deltas[i].key : i \in DOMAIN manifest_.simple_deltas}

\* C19: with two DeltaManagers on one deltas directory, once every call has
\* completed the manifest on disk lists every path a create_delta returned
\* and holds every simple-delta key that was set.
C19_AppendsNotLost ==
    (\A p \in Procs : dpc[p].at = "idle") =>
        /\ manifestFile.state = "ok"
        /\ appended \subseteq Listed(manifestFile.manifest)
        /\ keysSet \subseteq SimpleKeysOf(manifestFile.manifest)

\* C20 as stated: the second of two consecutive get_delta_content calls
\* returns what the first returned, and _manifest.json is after the calls
\* what it was before them.
C20_RenderIdempotent ==
    callsInRow = 2 =>
        /\ render_last = render_prev
        /\ manifestFile = fileBefore

\* C20, amended: the two calls return the same text; a manifest that could
\* be parsed before the calls is unchanged by them, and one that was missing
\* or corrupt has been replaced by the empty manifest, the text being empty.
C20_RenderIdempotentOrHealed ==
    callsInRow = 2 =>
        /\ render_last = render_prev
        /\ fileBefore.state = "ok" => manifestFile = fileBefore
        /\ fileBefore.state # "ok" =>
              /\ manifestFile = OkFile(EmptyManifest)
              /\ render_last = << >>

\* Two consecutive calls have returned the same non-empty block, built from
\* a delta file and a simple delta, another listed file being gone.
C20_Witness ==
    /\ callsInRow = 2
    /\ render_last = render_prev
    /\ Len(render_last) = 4
    /\ Cardinality(Listed(manifestFile.manifest)) = 2
    /\ Cardinality(deltaFiles) = 1

(* ------------------------- crash safety claims ------------------------ *)

\* C21: when a process has been killed between the start of the temp-file
\* write and the rename, job_queue.json holds a complete JSON document.
C21_TargetComplete ==
    (\E p \in Procs : diedIn[p] # "none") => ~queueTorn

\* C22: no DeltaManager operation writes _manifest.json under its own name,
\* so once a process has been killed inside an operation the manifest on
\* disk, if there is one, is still a complete document.
C22_ManifestComplete ==
    dkilled => manifestFile.state # "corrupt"

(* ---------------------- verbatim watcher claims ----------------------- *)

\* The step is one pass of the watcher's loop.
Polled == vlast' = "poll"

\* The .txt files, or the appended outputs, in all of Chat_History.
RECURSIVE Total(_, _)
Total(S, field) ==
    IF S = {} THEN 0
    ELSE LET s == CHOOSE s \in S : TRUE
         IN SumBlocks(s.blocks, field) + Total(S \ {s}, field)

\* The block directory the watcher is writing to.
CurrentBlock ==
    LET dir == vm.current_block_dir
        s == CHOOSE s \in sessions : s.sid = dir.sid
    IN s.blocks[dir.block]

\* C23: a pass that reads input_ready writes a turn file and then
\* waiting_for_response; one that reads output_ready ends with idle; one
\* that reads shutdown runs end_session and ends the loop; one that reads
\* force_new_session ends with idle; any other status changes nothing.
C23_StatusMachine ==
    [][Polled =>
        CASE vstatus = "input_ready" ->
                /\ Total(sessions', "files") = Total(sessions, "files") + 1
                /\ vstatus' = "waiting_for_response"
          [] vstatus = "output_ready" -> vstatus' = "idle"
          [] vstatus = "shutdown" ->
                /\ ~vrunning'
                /\ sessions' = end_session(sessions, vm, vclock)
          [] vstatus = "force_new_session" -> vstatus' = "idle" /\ vrunning'
          [] OTHER -> UNCHANGED <<vstatus, sessions, vm, vrunning>>]_vars

C25_OutputNeedsInput ==
    [][(Polled /\ vstatus = "output_ready") =>
          /\ ~vm.current_file.set =>
                /\ sessions' = sessions
                /\ vm'.message_count_in_block = vm.message_count_in_block
          /\ ~vm'.current_file.set
          /\ Total(sessions', "files") = Total(sessions, "files")]_vars

\* C26: Chat_History holds at most one session directory whose name has no
\* end timestamp.
C26_OneOpenSession ==
    Cardinality({s \in sessions : IsOpen(s)}) <= 1

(* ------------------------ episodic memory claims ---------------------- *)

\* C27: parse_entry_file of the file create_chat_entry wrote returns the
\* mode, input, output, summary_heading and summary it was given.
C27_RoundTrip ==
    ep.step = "parsed" =>
        /\ ep.data.mode = ep.mode
        /\ ep.data.input = ep.user_input
        /\ ep.data.output = ep.model_output
        /\ ep.data.summary_heading = ep.summary_heading
        /\ ep.data.summary = ep.summary

(* ------------------------- lock timeout claims ------------------------ *)

\* C28: a public operation of AutomationController, SchedulerManager,
\* CycleManager or DeltaManager that cannot take its file lock within the
\* timeout returns its failure value; TimeoutError never reaches its caller.
C28_TimeoutNeverEscapes ==
    \A p \in Procs : outcome[p] # "TimeoutError"

(* ----------------------- corrupt document claims ---------------------- *)

\* C29: when _manifest.json holds text that is not valid JSON, the read
\* gives the empty default and the next mutating operation leaves a valid
\* document with exactly the new item: create_delta a manifest listing only
\* the new path, set_section_value (whose _load_manifest has rewritten the
\* file as the empty manifest) a manifest holding only the new key.
C29_CorruptHealsToNewItem ==
    [][manifestFile.state = "corrupt" =>
         /\ deltasMade' = deltasMade + 1 =>
               manifestFile' =
                  OkFile([EmptyManifest EXCEPT
                             !.deltas = <<relative_path(deltasMade + 1)>>])
         /\ (dpc[1].at = "idle" /\ dpc'[1].at = "save" /\ dpc'[1].key # "") =>
               /\ manifestFile' = OkFile(EmptyManifest)
               /\ manifest'[1].deltas = << >>
               /\ manifest'[1].notes = << >>
               /\ SimpleKeysOf(manifest'[1]) = {dpc'[1].key}]_vars

(* --------------------------- flag read claims ------------------------- *)

\* active_cycle.json is missing, empty or not valid JSON.
BadActive(file) ==
    \/ file.status = "absent"
    \/ /\ file.status = "unparsed"
       /\ strip(file.name) = "" \/ JSONDecodeError(file.name)

\* llm_status.txt is missing or holds anything other than idle.
BadStatus(file) == file = AbsentFlag \/ file # "idle"

\* C30: a pass of the cycle watcher that finds active_cycle.json missing,
\* empty or not valid JSON, or llm_status.txt missing or holding anything
\* other than idle, ends there and writes nothing to cycle_trigger.txt,
\* llm_status.txt or active_cycle.json; the watcher is about to write only
\* in a pass that found a running record and the status idle.
C30_GarbageWritesNothing ==
    /\ [](wpc \in {"write_stopped", "write_busy", "write_trigger", "write_step"} =>
            /\ ~BadActive(seenActive) /\ seenActive.status = "running"
            /\ ~BadStatus(seenStatus))
    /\ [][(/\ flagReads' # flagReads
           /\ \/ wpc = "read_active" /\ BadActive(active_cycle)
              \/ wpc = "read_status" /\ BadStatus(llm_status)) =>
             /\ wpc' = "read_active"
             /\ UNCHANGED <<active_cycle, llm_status, cycle_trigger>>]_vars

\* A pass has found unparseable text in active_cycle.json while the LLM was
\* idle and no trigger was waiting, and has ended with the files as they were.
C30_Witness ==
    /\ wpc = "read_active"
    /\ seenActive = RawFlag("{bad")
    /\ active_cycle = seenActive
    /\ seenStatus = Unread
    /\ llm_status = "idle"
    /\ cycle_trigger = NoTrigger

(* -------------------------- simple delta claims ----------------------- *)

\* The lines of a rendered block.
LinesOf(block) == {block[i] : i \in DOMAIN block}

\* C31: after update_simple_delta(t, v1) followed by
\* update_simple_delta(t, v2), the manifest's simple_deltas holds exactly one
\* entry for t, with value v2; get_delta_content contains v2, and not v1
\* unless it is the value of another trait; and an update_simple_delta call
\* creates no delta file and leaves the deltas list as it was.
C31_LatestValueWins ==
    /\ []((Len(updates) = 2 /\ updates[1].trait = updates[2].trait) =>
            LET t == updates[2].trait
                v1 == updates[1].value
                v2 == updates[2].value
                simple_deltas == manifestFile.manifest.simple_deltas
            IN /\ manifestFile.state = "ok"
               /\ Cardinality({i \in DOMAIN simple_deltas :
                                  simple_deltas[i].key = t}) = 1
               /\ \A i \in DOMAIN simple_deltas :
                     simple_deltas[i].key = t => simple_deltas[i].value = v2
               /\ callsInRow >= 1 =>
                     /\ v2 \in LinesOf(render_last)
                     /\ (/\ v1 # v2
                         /\ \A i \in DOMAIN simple_deltas :
                               simple_deltas[i].value # v1)
                           => v1 \notin LinesOf(render_last))
    /\ [][updates' # updates =>
             /\ deltaFiles' = deltaFiles
             /\ deltasMade' = deltasMade
             /\ manifestFile'.manifest.deltas = manifestFile.manifest.deltas]_vars

\* A trait has been set to v1 and then to v2, beside a delta file, and the
\* block has been rendered since.
C31_Witness ==
    /\ Len(updates) = 2
    /\ updates[1].trait = updates[2].trait
    /\ updates[1].value # updates[2].value
    /\ deltaFiles # {}
    /\ callsInRow >= 1
    /\ updates[2].value \in LinesOf(render_last)
    /\ updates[1].value \notin LinesOf(render_last)

\* The contents of the listed delta files that exist, in manifest order.
ExistingContents(manifest_, files) ==
    LET exists(path) == path \in files
        listed == SelectSeq(manifest_.deltas, exists)
    IN [i \in DOMAIN listed |-> delta_content(listed[i])]

\* The values of the simple deltas, in order.
SimpleValuesOf(manifest_) ==
    [i \in DOMAIN manifest_.simple_deltas |-> manifest_.simple_deltas[i].value]

\* C32: get_delta_content returns the contents of the existing delta files
\* in manifest order, skipping the listed files that are missing, then the
\* simple_deltas values, then the other sections, inside the DELTAS_START /
\* DELTAS_END markers; it returns the empty string exactly when no listed
\* delta file exists, simple_deltas is empty and the other section is empty.
C32_RenderSkipsMissing ==
    callsInRow >= 1 =>
        LET manifest_ == manifestFile.manifest
            files == ExistingContents(manifest_, deltaFiles)
            inner == IF render_last = << >> THEN << >>
                     ELSE SubSeq(render_last, 2, Len(render_last) - 1)
        IN /\ manifestFile.state = "ok"
           /\ render_last = << >> <=>
                 /\ files = << >>
                 /\ manifest_.simple_deltas = << >>
                 /\ manifest_.notes = << >>
           /\ render_last # << >> =>
                 /\ Head(render_last) = "###DELTAS_START###"
                 /\ render_last[Len(render_last)] = "###DELTAS_END###"
                 /\ Len(inner) >= Len(files) + Len(manifest_.simple_deltas)
                 /\ SubSeq(inner, 1, Len(files)) = files
                 /\ SubSeq(inner, Len(files) + 1,
                           Len(files) + Len(manifest_.simple_deltas))
                       = SimpleValuesOf(manifest_)
                 /\ SubSeq(inner, Len(files) + Len(manifest_.simple_deltas) + 1,
                           Len(inner))
                       = (IF manifest_.notes = << >> THEN << >>
                          ELSE <<"###NOTES_START###">> \o manifest_.notes
                                  \o <<"###_END###">>)

\* A block has been rendered while the first listed delta file was missing
\* and the second was there: it holds the second file's content, a simple
\* delta and the other section.
C32_Witness ==
    /\ callsInRow >= 1
    /\ Len(manifestFile.manifest.deltas) = 2
    /\ manifestFile.manifest.deltas[1] \notin deltaFiles
    /\ manifestFile.manifest.deltas[2] \in deltaFiles
    /\ manifestFile.manifest.simple_deltas # << >>
    /\ manifestFile.manifest.notes # << >>
    /\ render_last[2] = delta_content(manifestFile.manifest.deltas[2])

(* ----------------------- watcher restart claims ----------------------- *)

\* C33: a scheduler watcher started in front of a scheduler_watcher.lock
\* left by a watcher that has died (the recorded PID is not running) does not
\* give up with TimeoutError ("already running"): with its zero timeout it
\* goes on to remove the stale file and enter the polling loop.
C33_StaleWatcherLockTaken ==
    [][\A p \in Procs :
         (/\ foundStale[p] /\ StaleLockFile
          /\ pc[p] = "check_timeout" /\ alive'[p])
            => pc'[p] # "timed_out"]_vars

(* --------------------------- poller claims ---------------------------- *)

\* C34: no injected trigger is lost: when the cycle watcher writes a prompt
\* to cycle_trigger.txt, every prompt it wrote before has been read and put
\* on the consumer's queue by _watch_cycle_trigger_file, exactly once and in
\* order.
C34_NoTriggerLost ==
    [][(wpc = "write_trigger" /\ wpc' = "write_step") =>
          stream_queue = injected]_vars

(* ---------------------- cycles defined later -------------------------- *)

\* The watcher has found the LLM idle and decides about the record it read.
Decides == wpc = "read_status" /\ wpc' \in {"write_stopped", "write_busy"}

\* The cycle of the record the watcher read, as cycles.json has it, has a
\* trigger at the record's step.
HasTriggerInFile ==
    LET name == active_cycle_data.name
    IN /\ name \in ManagedCycles
       /\ cyclesFile[name].exists
       /\ current_step_of(active_cycle_data) < Len(cyclesFile[name].triggers)

\* C35: a cycle the consumer's CycleManager defined or edited after the
\* watcher started is resolved with its current triggers: when the watcher
\* decides about a running record whose cycle has, in cycles.json, a trigger
\* at the record's step, it goes on to inject that trigger and does not stop
\* the cycle.
C35_LateCycleResolved ==
    [][(Decides /\ HasTriggerInFile) =>
          /\ wpc' = "write_busy"
          /\ next_trigger(active_cycle_data)
                = cyclesFile[active_cycle_data.name].triggers[
                     current_step_of(active_cycle_data) + 1]]_vars

(* ------------------- verbatim watcher: signals kept ------------------- *)

\* C36: the verbatim watcher never discards a consumer signal: when it
\* writes waiting_for_response or idle, verbatim_state.txt still holds the
\* word it read and handled, not a later word of the consumer.
C36_NoSignalOverwritten ==
    [][(vpc = "write" /\ vpc' = "read") => vstatus = status]_vars

(* ---------------- verbatim watcher: a leftover shutdown --------------- *)

\* C37: a verbatim watcher started while verbatim_state.txt still holds the
\* shutdown word of an earlier on_closing stays in its loop: its pass over
\* the leftover word does not end it.
C37_LeftoverShutdownIgnored ==
    [][(vlast = "start" /\ vstatus = "shutdown" /\ Polled) => vrunning']_vars

(* ---------------------- malformed schedule entries -------------------- *)

\* C38: one malformed schedule entry does not block scheduling: a poll of
\* the scheduler watcher returns and removes every well-formed entry of
\* schedules.json that is due, whether or not the file also holds an entry
\* whose scheduled_datetime_iso does not parse.
C38_MalformedDoesNotBlock ==
    [][poll =>
         \A i \in DOMAIN schedulesFile :
            (~ValueError(schedulesFile[i])
                /\ IsDue(Schedule(schedulesFile[i]), clock)) =>
               /\ schedulesFile[i].id \in Ids(due_schedules')
               /\ schedulesFile[i].id \notin Ids(schedulesFile')]_vars

(* ------------------------- the cycle cursor --------------------------- *)

\* The step is a write of active_cycle.json by the watcher, over a record
\* of the cycle whose record the watcher read.
WatcherWrites ==
    /\ wpc \in {"write_step", "write_stopped"}
    /\ wpc' = "read_active"
    /\ active_cycle.name = active_cycle_data.name

\* C39: the cycle cursor is in bounds: a record the watcher writes to
\* active_cycle.json has 0 <= current_step <= len(triggers), the watcher
\* never writes a smaller current_step than the file holds, and the number
\* of prompts injected since the cycle was started equals the current_step
\* written.
C39_CursorBounds ==
    [][WatcherWrites =>
         /\ 0 <= current_step_of(active_cycle')
         /\ current_step_of(active_cycle') <= Len(get_cycle(active_cycle'.name).triggers)
         /\ current_step_of(active_cycle') >= current_step_of(active_cycle)
         /\ Len(injected') = current_step_of(active_cycle')]_vars

(* --------------------- queue calls that do nothing ------------------- *)

\* The call the step makes is an add_job with a name that is not in the
\* catalog, or a get_next_job on an empty queue.
DoesNothing ==
    \/ qcall'.op = "add_job" /\ qcall'.name \notin job_definitions
    \/ qcall'.op = "get_next_job" /\ queueFile = << >>

\* C40: queue operations that do nothing leave the queue file unchanged:
\* add_job with a name that is not in the job catalog, and get_next_job on
\* an empty queue, which returns None, do not modify job_queue.json; and
\* every entry of the queue names a job of the catalog.
C40_NoOpLeavesQueue ==
    /\ [](\A i \in DOMAIN queueFile : queueFile[i].name \in job_definitions)
    /\ [][(qcall' # qcall /\ DoesNothing) =>
             /\ queueFile' = queueFile
             /\ qcall'.result = "None"]_vars

\* add_job has just returned for a name outside the catalog, with entries
\* in the queue.
C40_Witness ==
    /\ qcall.op = "add_job"
    /\ qcall.name = "unknown_job"
    /\ queueFile # << >>

====
